---- MODULE Spec2Model ----
(***************************************************************************)
(* Support-ticket triage server (backend/server.js and its deployment      *)
(* variant) as a state machine.                                            *)
(*                                                                         *)
(* Granularity: one step of a request is the effect of one awaited call    *)
(* (Mongo, Redis, embedding, generative text) followed by the synchronous  *)
(* code up to the next await; io.emit is synchronous.  Requests of         *)
(* different HTTP calls interleave at these steps.                         *)
(*                                                                         *)
(* Texts are sequences of word tokens; String.includes(w) is token         *)
(* membership and slice(0, n) keeps the first n tokens.                    *)
(***************************************************************************)
EXTENDS Integers, Sequences, FiniteSets, TLC

VARIABLES
  build,      \* which server file runs: "server" (server.js) or "deploy" (part_002)
  selected,   \* redis selected-product:<user>: a key of Keys, or NoKey
  cases,      \* Mongo collection Case, in insertion order; _id = position
  agentOnly,  \* redis agent-only:<caseId>: remaining seconds, 0 = key absent
  memory,     \* Mongo collection CaseMemory, in insertion order
  chatLog,    \* redis chat:<user>:<order>:<product>: list of turns, per key
  published,  \* socket.io events emitted so far
  reqs,       \* the HTTP requests: position in the handler and its locals
  faults,     \* whether the embedding, generative and redis collaborators may fail
  call,       \* the last direct call of an exported function: arguments and result
  shown,      \* per case, the status of the last case:status event on the user's topic
  retention,  \* per chat key, the remaining seconds of the redis key (0 = absent)
              \* and the age in seconds of each turn of its list
  rooms       \* socket.io case rooms: the (user id, case id) pairs joined

vars == <<build, selected, cases, agentOnly, memory, chatLog, published, reqs, faults,
          call, shown, retention, rooms>>

(***************************************************************************)
(* Bounds of the model                                                     *)
(***************************************************************************)
MaxReq == 3          \* HTTP requests with a handler of several steps
MaxInflight == 2     \* of which that many run concurrently
TickSeconds == 900   \* seconds that pass at one step of the clock
ChatTickSeconds == 28800   \* seconds per step of time for the chat keys

ReqIds == 1..MaxReq

(***************************************************************************)
(* Program constants                                                       *)
(***************************************************************************)
AGENT_ONLY_TTL == 1800
CHAT_TTL == 86400
FAQ_SIM_THRESHOLD == 76      \* 0.76, in hundredths
FAQ_TOP_K == 3
SIM_CASE_THRESHOLD == 72     \* 0.72, in hundredths
SIM_TOP_K == 3
TEXT_BUDGET == 512
MEMORY_SCAN_LIMIT == 200

Min(a, b) == IF a < b THEN a ELSE b
Max(a, b) == IF a > b THEN a ELSE b

(***************************************************************************)
(* The world: one user with one order of two products, one admin           *)
(***************************************************************************)
User == "u1"
OtherUser == "u2"    \* a second customer, with no orders and no cases
Admin == "admin1"
NoAdmin == "null"
OrderProducts == <<"E-commerce", "Travel">>   \* product domains, index 0 and 1
NoKey == [orderId |-> "none", productIndex |-> 0]
Keys == { [orderId |-> "o1", productIndex |-> i - 1] : i \in 1..Len(OrderProducts) }
DomainOf(key) == OrderProducts[key.productIndex + 1]
NoCase == 0
\* a body without productIndex
MissingIndex == -1

\* Messages a user sends
MsgRefundPolicy == <<"refund", "policy">>
MsgLate == <<"delivery", "late">>
MsgBroken == <<"item", "broken">>
MsgPayment == <<"payment", "failed">>
MsgRefundAngry == <<"refund", "scam">>
MsgRefundCalm == <<"refund", "please">>
RefundMessages == {MsgRefundPolicy, MsgRefundAngry, MsgRefundCalm}
Messages == {MsgRefundPolicy, MsgLate, MsgBroken}
\* Descriptions of explicitly created cases
Descriptions == {MsgBroken, MsgPayment}

AgentMessage == <<"replacement", "sent">>
ClosingNote == <<"Marked", "as", "resolved">>
Null == <<>>

Has(text, w) == \E i \in 1..Len(text) : text[i] = w
Slice(text, n) == SubSeq(text, 1, Min(Len(text), n))
LastN(s, n) == SubSeq(s, Max(1, Len(s) - n + 1), Len(s))

(***************************************************************************)
(* Embedding and similarity (faqService.js, caseMemory.js)                 *)
(***************************************************************************)
VocabSeq == <<"refund", "policy", "delivery", "late", "item", "broken",
              "payment", "failed", "flight", "replacement">>

RECURSIVE Count(_, _)
Count(w, text) ==
  IF text = <<>> THEN 0
  ELSE (IF Head(text) = w THEN 1 ELSE 0) + Count(w, Tail(text))

\* getEmbedding: the external embedding model, here the bag of words of the text
getEmbedding(text) == [i \in 1..Len(VocabSeq) |-> Count(VocabSeq[i], text)]

RECURSIVE SumTo(_, _)
SumTo(f, n) == IF n = 0 THEN 0 ELSE f[n] + SumTo(f, n - 1)

\* cosineSimilarity: dot / (sqrt(na) * sqrt(nb)) over the shared prefix, kept
\* exact as the triple (dot, na, nb); 0 is (0, 1, 1)
cosineSimilarity(a, b) ==
  LET n == Min(Len(a), Len(b))
      dot == SumTo([i \in 1..n |-> a[i] * b[i]], n)
      na == SumTo([i \in 1..n |-> a[i] * a[i]], n)
      nb == SumTo([i \in 1..n |-> b[i] * b[i]], n)
  IN IF na = 0 \/ nb = 0 THEN [dot |-> 0, na |-> 1, nb |-> 1]
     ELSE [dot |-> dot, na |-> na, nb |-> nb]

\* cosine of caseMemory.js: the same loop over the shared prefix
cosine(a, b) ==
  LET n == Min(Len(a), Len(b))
      dot == SumTo([i \in 1..n |-> a[i] * b[i]], n)
      na == SumTo([i \in 1..n |-> a[i] * a[i]], n)
      nb == SumTo([i \in 1..n |-> b[i] * b[i]], n)
  IN IF na = 0 \/ nb = 0 THEN [dot |-> 0, na |-> 1, nb |-> 1]
     ELSE [dot |-> dot, na |-> na, nb |-> nb]

\* the (dot, na, nb) up to 12 with dot^2 = na * nb for which the double
\* dot / (Math.sqrt(na) * Math.sqrt(nb)) is not 1 but one of 0.9999999999999998,
\* 0.9999999999999999, 1.0000000000000002
NotExactlyOne ==
  {<<2, 2, 2>>, <<4, 2, 8>>, <<3, 3, 3>>, <<6, 3, 12>>, <<5, 5, 5>>, <<6, 6, 6>>,
   <<7, 7, 7>>, <<4, 8, 2>>, <<8, 8, 8>>, <<10, 10, 10>>, <<6, 12, 3>>, <<12, 12, 12>>}

\* the double that is returned: 0, 1, a neighbour of 1, or another value
CosineDouble(s) ==
  IF s.dot = 0 THEN "0"
  ELSE IF s.dot < 0 THEN "negative"
  ELSE IF s.dot * s.dot # s.na * s.nb THEN "between"
  ELSE IF <<s.dot, s.na, s.nb>> \in NotExactlyOne THEN "near 1"
  ELSE "1"

\* score >= th / 100, for a threshold th > 0
ScoreAtLeast(s, th) ==
  s.dot > 0 /\ s.dot * s.dot * 10000 >= th * th * s.na * s.nb

\* score s > score t (both dot products are >= 0 for bag-of-words vectors)
ScoreGreater(s, t) ==
  s.dot * s.dot * t.na * t.nb > t.dot * t.dot * s.na * s.nb

\* Array.prototype.sort((a, b) => b.score - a.score): stable, descending.  The
\* element at index i lands after every element with a greater score and after
\* the earlier elements with the same score.
SortByScore(s) ==
  LET n == Len(s)
      t == SubSeq(s, 1, n)
      Before(j, i) ==
        \/ ScoreGreater(t[j].score, t[i].score)
        \/ j < i /\ ~ScoreGreater(t[i].score, t[j].score)
      place == SubSeq([i \in 1..n |->
                         1 + Cardinality({j \in 1..n : j # i /\ Before(j, i)})],
                      1, n)
  IN [k \in 1..n |-> t[CHOOSE i \in 1..n : place[i] = k]]

Filter(s, dom) ==
  LET InDomain(c) == c.domain = dom
  IN SelectSeq(s, InDomain)

\* a query that ignores the domain
FindAll(s, dom) == s

\* const filter = domain ? { domain } : {}; Model.find(filter)
NoDomain == "none"
Find(s, dom) == IF dom = NoDomain THEN s ELSE Filter(s, dom)

(***************************************************************************)
(* FAQ matcher (faqService.js)                                             *)
(***************************************************************************)
Faqs == <<
  [question |-> <<"refund", "policy">>, answer |-> <<"faq", "refund", "policy">>,
   domain |-> "E-commerce"],
  [question |-> <<"delivery", "late">>, answer |-> <<"faq", "late", "delivery">>,
   domain |-> "E-commerce"],
  [question |-> <<"flight", "late">>, answer |-> <<"faq", "flight", "delay">>,
   domain |-> "Travel"] >>

NoHit == [hit |-> FALSE, answer |-> Null, threw |-> FALSE]

\* checkFaq without its try/catch: the failing embedding call reaches the caller
checkFaqUncaught(message, domain, embedOk) ==
  IF ~embedOk THEN [hit |-> FALSE, answer |-> Null, threw |-> TRUE]
  ELSE
    LET q == getEmbedding(Slice(message, TEXT_BUDGET))
        faqs == Find(Faqs, domain)
        scored == [i \in 1..Len(faqs) |->
                     [ans |-> faqs[i].answer,
                      score |-> cosineSimilarity(q, getEmbedding(faqs[i].question))]]
        ranked == Slice(SortByScore(scored), FAQ_TOP_K)
    IN IF ranked # <<>> /\ ScoreAtLeast(ranked[1].score, FAQ_SIM_THRESHOLD)
       THEN [hit |-> TRUE, answer |-> ranked[1].ans, threw |-> FALSE]
       ELSE NoHit

\* checkFaq(message, domain): embedOk = FALSE is a failing embedding call,
\* swallowed as no match
checkFaq(message, domain, embedOk) ==
  IF ~embedOk THEN NoHit
  ELSE
    LET q == getEmbedding(Slice(message, TEXT_BUDGET))
        faqs == Find(Faqs, domain)
        scored == [i \in 1..Len(faqs) |->
                     [ans |-> faqs[i].answer,
                      score |-> cosineSimilarity(q, getEmbedding(faqs[i].question))]]
        ranked == Slice(SortByScore(scored), FAQ_TOP_K)
    IN IF ranked # <<>> /\ ScoreAtLeast(ranked[1].score, FAQ_SIM_THRESHOLD)
       THEN [hit |-> TRUE, answer |-> ranked[1].ans, threw |-> FALSE]
       ELSE NoHit

(***************************************************************************)
(* Case memory (caseMemory.js, formatCaseMemory.js)                        *)
(***************************************************************************)
MemIndexOf(mem, caseId) ==
  IF \E i \in 1..Len(mem) : mem[i].caseId = caseId
  THEN CHOOSE i \in 1..Len(mem) : mem[i].caseId = caseId
  ELSE 0

\* an insert where the upsert is
UpsertMemoryInsert(mem, rec) == Append(mem, rec)

\* CaseMemory.findOneAndUpdate({caseId}, {...}, {upsert: true})
UpsertMemory(mem, rec) ==
  LET i == MemIndexOf(mem, rec.caseId)
  IN IF i = 0 THEN Append(mem, rec) ELSE [mem EXCEPT ![i] = rec]

\* an indexCase that writes its record whether or not its calls succeeded
indexCaseUnguarded(mem, caseId, doc, embedOk) ==
  IF caseId = NoCase THEN mem
  ELSE UpsertMemory(mem, [caseId |-> caseId,
                          summary |-> Slice(doc.description, TEXT_BUDGET),
                          domain |-> doc.domain])

\* indexCase(caseDoc): a failing embedding call is logged and changes nothing
indexCase(mem, caseId, doc, embedOk) ==
  IF caseId = NoCase \/ ~embedOk THEN mem
  ELSE UpsertMemory(mem, [caseId |-> caseId,
                          summary |-> Slice(doc.description, TEXT_BUDGET),
                          domain |-> doc.domain])

\* indexResolutionSummary(caseDoc, summaryText)
indexResolutionSummary(mem, caseId, doc, summaryText, embedOk) ==
  IF caseId = NoCase \/ summaryText = <<>> \/ ~embedOk THEN mem
  ELSE UpsertMemory(mem, [caseId |-> caseId,
                          summary |-> Slice(summaryText, TEXT_BUDGET),
                          domain |-> doc.domain])

\* the first topK candidates in the order found
searchSimilarCasesUnsorted(mem, text, domain, topK, embedOk) ==
  IF ~embedOk THEN <<>>
  ELSE
    LET q == getEmbedding(Slice(text, TEXT_BUDGET))
        candidates == Slice(Find(mem, domain), MEMORY_SCAN_LIMIT)
        scored == [i \in 1..Len(candidates) |->
                     [caseId |-> candidates[i].caseId,
                      summary |-> candidates[i].summary,
                      domain |-> candidates[i].domain,
                      score |-> cosine(q, getEmbedding(candidates[i].summary))]]
    IN Slice(scored, topK)

\* searchSimilarCases(text, domain, topK)
searchSimilarCases(mem, text, domain, topK, embedOk) ==
  IF ~embedOk THEN <<>>
  ELSE
    LET q == getEmbedding(Slice(text, TEXT_BUDGET))
        candidates == Slice(Find(mem, domain), MEMORY_SCAN_LIMIT)
        scored == [i \in 1..Len(candidates) |->
                     [caseId |-> candidates[i].caseId,
                      summary |-> candidates[i].summary,
                      domain |-> candidates[i].domain,
                      score |-> cosine(q, getEmbedding(candidates[i].summary))]]
    IN Slice(SortByScore(scored), topK)

\* buildMemoryReply(summary, {orderId, productName}): the implied action by keyword
buildMemoryReply(summary, orderId) ==
  LET action == IF Has(summary, "refund") THEN "issue-a-refund"
                ELSE IF Has(summary, "replace") \/ Has(summary, "replacement")
                     THEN "send-a-replacement"
                     ELSE "resolve-this"
  IN <<"similar-case:">> \o summary \o <<"for-order", orderId, action, "proceed?">>

(***************************************************************************)
(* Priority and refund keywords (server.js)                                *)
(***************************************************************************)
determinePriority(description) ==
  IF \E w \in {"payment", "refund", "billing", "charge", "transaction"} :
       Has(description, w)
  THEN "high"
  ELSE "low"

\* REFUND_WORDS.some(w => message.toLowerCase().includes(w))
IsRefund(message) ==
  \E w \in {"refund", "money back", "chargeback", "return my money"} : Has(message, w)

\* /payment|billing|charged|failed/i.test(message)
LlmPriority(message) ==
  IF \E w \in {"payment", "billing", "charged", "failed"} : Has(message, w)
  THEN "high"
  ELSE "low"

(***************************************************************************)
(* Sentiment (sentiment.js) and SLA (sla.js); the weights in tenths        *)
(***************************************************************************)
ANGER_WORDS == {"angry", "furious", "frustrated", "worst", "nonsense", "cheated",
                "wtf", "hate", "mad", "ridiculous", "disgusting", "scam", "fraud",
                "terrible", "immediately"}
CALM_WORDS == {"please", "thank", "thanks", "could you", "may i", "no hurry",
               "whenever", "take your time", "ok", "cool", "fine"}

\* t.includes(w) finds w inside a longer word too: the pairs of the vocabulary
\* where one word lies within another
Infixes == {<<"thank", "thanks">>, <<"ok", "broken">>}
Includes(text, w) ==
  \E i \in 1..Len(text) : text[i] = w \/ <<w, text[i]>> \in Infixes

ANGER_WEIGHT == -10
CALM_WEIGHT == 6
BANG_WEIGHT == -6
SMILE_WEIGHT == 3
FROWN_WEIGHT == -3
ANGRY_MAX == -8
COOL_MIN == 6

SentimentScore(text) ==
  ANGER_WEIGHT * Cardinality({w \in ANGER_WORDS : Includes(text, w)})
  + CALM_WEIGHT * Cardinality({w \in CALM_WORDS : Includes(text, w)})
  + (IF Includes(text, "!!!") \/ Includes(text, "?!?!") THEN BANG_WEIGHT ELSE 0)
  + (IF Includes(text, ":)") THEN SMILE_WEIGHT ELSE 0)
  + (IF Includes(text, ":(") THEN FROWN_WEIGHT ELSE 0)

\* the score is a sum of doubles, added in the order of the code: -1 per anger
\* word, +0.6 per calm word, then -0.6, +0.3, -0.3.  These are the counts (anger
\* words, calm words, "!!!", ":)", ":(") whose exact sum is -0.8 or 0.6 and whose
\* double sum falls just inside the neutral band (-0.7999999999999999,
\* 0.5999999999999999)
RoundsToNeutral ==
  {<<0, 1, 0, 1, 1>>, <<0, 2, 1, 1, 1>>, <<2, 2, 0, 0, 0>>, <<2, 2, 0, 1, 1>>,
   <<2, 3, 1, 0, 0>>, <<2, 3, 1, 1, 1>>, <<5, 7, 0, 0, 0>>, <<5, 7, 0, 1, 1>>,
   <<5, 8, 1, 0, 0>>, <<5, 8, 1, 1, 1>>, <<6, 11, 0, 0, 0>>, <<6, 11, 0, 1, 1>>}

SentimentCounts(text) ==
  <<Cardinality({w \in ANGER_WORDS : Includes(text, w)}),
    Cardinality({w \in CALM_WORDS : Includes(text, w)}),
    IF Includes(text, "!!!") \/ Includes(text, "?!?!") THEN 1 ELSE 0,
    IF Includes(text, ":)") THEN 1 ELSE 0,
    IF Includes(text, ":(") THEN 1 ELSE 0>>

\* the double in `score`, in thousandths: the exact sum, one unit nearer to zero
\* where the double sum falls just inside the neutral band
ScoreDouble(text) ==
  100 * SentimentScore(text)
  + (IF SentimentCounts(text) \notin RoundsToNeutral THEN 0
     ELSE IF SentimentScore(text) < 0 THEN 1 ELSE -1)

\* the score returned as it was summed
analyzeSentimentUnclamped(text) ==
  LET score == ScoreDouble(text)
  IN [label |-> IF score <= 100 * ANGRY_MAX THEN "angry"
                ELSE IF score >= 100 * COOL_MIN THEN "cool"
                ELSE "neutral",
      score |-> score]

analyzeSentiment(text) ==
  LET score == ScoreDouble(text)
  IN [label |-> IF score <= 100 * ANGRY_MAX THEN "angry"
                ELSE IF score >= 100 * COOL_MIN THEN "cool"
                ELSE "neutral",
      score |-> Max(-1000, Min(1000, score))]

Undefined == "undefined"
SLA_FAST_MIN == 15
SLA_STD_MIN == 60
SLA_SLOW_MIN == 180
NoSla == [level |-> "none", targetMinutes |-> 0]

\* an SLA that looks at the sentiment only
computeSLABySentiment(priority, sentiment) ==
  IF sentiment = "angry" THEN [level |-> "express", targetMinutes |-> SLA_FAST_MIN]
  ELSE IF sentiment = "cool" THEN [level |-> "batched", targetMinutes |-> SLA_SLOW_MIN]
  ELSE [level |-> "standard", targetMinutes |-> SLA_STD_MIN]

\* an SLA that looks at the sentiment before the priority
computeSLACoolFirst(priority, sentiment) ==
  IF sentiment = "angry" THEN [level |-> "express", targetMinutes |-> SLA_FAST_MIN]
  ELSE IF sentiment = "cool" THEN [level |-> "batched", targetMinutes |-> SLA_SLOW_MIN]
  ELSE IF priority = "high" THEN [level |-> "express", targetMinutes |-> SLA_FAST_MIN]
  ELSE [level |-> "standard", targetMinutes |-> SLA_STD_MIN]

\* computeSLA({ priority = "low", sentiment = "neutral" }): a property that is
\* undefined takes its default
computeSLA(priority, sentiment) ==
  LET p == IF priority = Undefined THEN "low" ELSE priority
      t == IF sentiment = Undefined THEN "neutral" ELSE sentiment
  IN IF t = "angry" THEN [level |-> "express", targetMinutes |-> SLA_FAST_MIN]
     ELSE IF p = "high" THEN [level |-> "express", targetMinutes |-> SLA_FAST_MIN]
     ELSE IF t = "cool" THEN [level |-> "batched", targetMinutes |-> SLA_SLOW_MIN]
     ELSE [level |-> "standard", targetMinutes |-> SLA_STD_MIN]

RefundReply == <<"refund", "request", "escalated">>
StaticEscalation == <<"thanks", "routing", "to", "specialist">>
GeminiText == <<"gemini", "answer">>

\* callGemini(prompt): the models are tried in order; outcomes[i] is what the
\* request to GEMINI_MODELS[i] does: a text, an empty text, or an error code
GEMINI_MODELS == <<"gemini-2.0-flash", "gemini-2.5-pro", "gemini-2.5-flash",
                   "gemini-2.5-flash-lite", "gemini-2.0-flash-lite">>
ModelOutcomes == {"text", "empty", "429", "400", "401", "error"}

\* the error thrown for an error code of the API: server.js names 400 and 401
\* apart, part_002 gives both the same message; any other error is rethrown
GeminiError(code) ==
  IF code = "400" THEN (IF build = "server" THEN "invalid-request" ELSE "api-error")
  ELSE IF code = "401" THEN (IF build = "server" THEN "authentication-failed"
                             ELSE "api-error")
  ELSE "rethrown"

\* a loop that gives up at the first model that does not answer
GeminiNoRetry(outcomes, i) ==
  IF outcomes[i] = "text"
  THEN [threw |-> FALSE, text |-> GeminiText, calls |-> <<GEMINI_MODELS[i]>>,
        error |-> "none"]
  ELSE [threw |-> TRUE, text |-> Null, calls |-> <<GEMINI_MODELS[i]>>,
        error |-> "exhausted"]

\* for (let model of GEMINI_MODELS) from the i-th model on: the result, with the
\* models called on the way
RECURSIVE GeminiFrom(_, _)
GeminiFrom(outcomes, i) ==
  IF i > Len(GEMINI_MODELS)
  THEN [threw |-> TRUE, text |-> Null, calls |-> <<>>, error |-> "exhausted"]
  ELSE IF outcomes[i] = "text"
  THEN [threw |-> FALSE, text |-> GeminiText, calls |-> <<GEMINI_MODELS[i]>>,
        error |-> "none"]
  ELSE IF outcomes[i] \in {"empty", "429"}
  THEN [GeminiFrom(outcomes, i + 1) EXCEPT !.calls = <<GEMINI_MODELS[i]>> \o @]
  ELSE [threw |-> TRUE, text |-> Null, calls |-> <<GEMINI_MODELS[i]>>,
        error |-> GeminiError(outcomes[i])]

callGemini(outcomes) == GeminiFrom(outcomes, 1)

\* the generative stage without its try/catch
LlmReplyUncaught(outcomes) == callGemini(outcomes)

\* let llmReply = <static escalation text>; try { llmReply = await callGemini(prompt) } catch {}
LlmReply(outcomes) ==
  LET g == callGemini(outcomes)
  IN [threw |-> FALSE, text |-> IF g.threw THEN StaticEscalation ELSE g.text]

(***************************************************************************)
(* Persistent stores                                                       *)
(***************************************************************************)
NoDoc == [description |-> <<>>, domain |-> "none", priority |-> "none",
          status |-> "none", responses |-> <<>>]

\* a constructor that takes the schema default for the priority but not the status
NewCaseInProgress(key, description, priority, domain) ==
  [userId |-> User, orderId |-> key.orderId, productIndex |-> key.productIndex,
   description |-> description, domain |-> domain, priority |-> priority,
   status |-> "in-progress", responses |-> <<>>]

\* new Case({userId, orderId, productIndex, description, priority, domain}):
\* status defaults to "open", responses to []
NewCase(key, description, priority, domain) ==
  [userId |-> User, orderId |-> key.orderId, productIndex |-> key.productIndex,
   description |-> description, domain |-> domain, priority |-> priority,
   status |-> "open", responses |-> <<>>]

KeyOf(c) == [orderId |-> c.orderId, productIndex |-> c.productIndex]

\* the local document a query returns
DocOf(c) == [description |-> c.description, domain |-> c.domain,
             priority |-> c.priority, status |-> c.status,
             responses |-> c.responses]

\* Case.findOne({userId, orderId, productIndex}): the _id of the first match, or NoCase
FindCase(cs, key) ==
  IF \E i \in 1..Len(cs) : KeyOf(cs[i]) = key
  THEN CHOOSE i \in 1..Len(cs) :
         KeyOf(cs[i]) = key /\ \A j \in 1..(i - 1) : KeyOf(cs[j]) # key
  ELSE NoCase

\* the collection without its unique index: every insert succeeds
UniqueIndexMissing(cs, key) == TRUE

\* caseSchema.index({userId, orderId, productIndex}, {unique: true}): an insert
\* of a second case with the key fails with a duplicate-key error
UniqueIndexAllows(cs, key) == \A i \in 1..Len(cs) : KeyOf(cs[i]) # key

\* doc.save() of a loaded document: writes the paths whose value was changed
\* after loading (old is the value as loaded, new the value as assigned)
SaveModified(c, old, new) ==
  [c EXCEPT
     !.description = IF new.description # old.description THEN new.description ELSE @,
     !.priority = IF new.priority # old.priority THEN new.priority ELSE @,
     !.domain = IF new.domain # old.domain THEN new.domain ELSE @,
     !.status = IF new.status # old.status THEN new.status ELSE @]

\* a lock check that never sees the key
isAgentOnlyIgnored(lock, caseId) == FALSE

\* isAgentOnly / setAgentOnly / clearAgentOnly on the expiring redis key
isAgentOnly(lock, caseId) ==
  caseId # NoCase /\ caseId \in DOMAIN lock /\ lock[caseId] > 0

\* a lock that is set for half the time
setAgentOnlyShort(lock, caseId) ==
  IF caseId = NoCase THEN lock
  ELSE [c \in DOMAIN lock \cup {caseId} |->
          IF c = caseId THEN AGENT_ONLY_TTL \div 2 ELSE lock[c]]

\* redisClient.set(key, "1", {EX: AGENT_ONLY_TTL})
setAgentOnly(lock, caseId) ==
  IF caseId = NoCase THEN lock
  ELSE [c \in DOMAIN lock \cup {caseId} |->
          IF c = caseId THEN AGENT_ONLY_TTL ELSE lock[c]]

\* a clear that leaves the key in place
clearAgentOnlyKept(lock, caseId) == lock

\* redisClient.del(key)
clearAgentOnly(lock, caseId) ==
  [c \in DOMAIN lock \ {caseId} |-> lock[c]]

(***************************************************************************)
(* Events and chat turns                                                   *)
(***************************************************************************)
UserRoom == [room |-> "user", user |-> User, caseId |-> NoCase]
AgentsRoom == [room |-> "agents", user |-> "-", caseId |-> NoCase]
CaseRoom(caseId) == [room |-> "case", user |-> "-", caseId |-> caseId]

Emit(topic, event, r, source, message, status) ==
  [topic |-> topic, event |-> event, req |-> r, source |-> source,
   message |-> message, status |-> status]

\* what the user's client shows after the events: the status of a case:status
\* event on the user's topic replaces the one shown for the case
UserStatuses(events) ==
  { e.status : e \in { x \in events : x.topic = UserRoom /\ x.event = "case:status" } }
ShowStatus(old, caseId, events) ==
  IF UserStatuses(events) = {} \/ caseId = NoCase THEN old
  ELSE [c \in DOMAIN old \cup {caseId} |->
          IF c = caseId THEN CHOOSE st \in UserStatuses(events) : TRUE ELSE old[c]]

Turn(r, prompt, reply, source, caseId) ==
  [prompt |-> prompt, reply |-> reply, source |-> source, caseId |-> caseId,
   req |-> r]

(***************************************************************************)
(* Requests                                                                *)
(***************************************************************************)
NoRes == [code |-> 0, body |-> "none"]
NoUpdates == [status |-> "none", priority |-> "none"]

NoCall == [fn |-> "none", args |-> <<>>, result |-> <<>>]

IdleReq ==
  [kind |-> "idle", pc |-> "idle", msg |-> <<>>, key |-> NoKey, caseId |-> NoCase,
   doc |-> NoDoc, path |-> "none", reply |-> Null, turnCase |-> NoCase,
   lockAtCheck |-> FALSE, stages |-> <<>>, updates |-> NoUpdates, res |-> NoRes,
   seenStatus |-> "none", failed |-> {}, token |-> "-", sla |-> NoSla,
   listed |-> {}]

\* the outcomes of the external calls: the awaited calls inside a stage's try
\* block (getEmbedding, then the query or the upsert) answer or one of them
\* throws; callGemini returns a text or throws (the handler then keeps the static
\* escalation text)
EmbedOutcomes == IF faults THEN BOOLEAN ELSE {TRUE}
AllModels(o) == [i \in 1..Len(GEMINI_MODELS) |-> o]
GeminiOutcomes ==
  IF faults
  THEN {AllModels("text"), AllModels("429"), AllModels("empty"),
        [AllModels("text") EXCEPT ![1] = "429"],
        [AllModels("text") EXCEPT ![1] = "429", ![2] = "401"],
        [AllModels("text") EXCEPT ![1] = "400"],
        [AllModels("text") EXCEPT ![1] = "empty", ![2] = "error"]}
  ELSE {AllModels("text")}

InFlight == { r \in ReqIds : reqs[r].kind # "idle" /\ reqs[r].pc # "done" }

CanStart(r) ==
  /\ reqs[r].kind = "idle"
  /\ \A q \in 1..(r - 1) : reqs[q].kind # "idle"
  /\ Cardinality(InFlight) < MaxInflight

\* the handler answers: its locals die, what it decided stays for inspection
Respond(req, code, body) ==
  [req EXCEPT !.pc = "done", !.doc = NoDoc, !.res = [code |-> code, body |-> body]]

At(r, kind, pc) == reqs[r].kind = kind /\ reqs[r].pc = pc

\* the Authorization header: a token signed for the user or for the admin, one
\* that jwt.verify refuses, or none
UserToken == "user-token"
AdminToken == "admin-token"
OtherToken == "other-user-token"
Tokens == {UserToken, AdminToken, "expired-token", "none"}

\* a middleware that lets every request through as the user it names
authMiddlewareOpen(token) ==
  [status |-> 200,
   userId |-> IF token = AdminToken THEN Admin
              ELSE IF token = OtherToken THEN OtherUser ELSE User,
   role |-> IF token = AdminToken THEN "admin" ELSE "user"]

\* authMiddleware: 401 without a token or with one that does not verify, else
\* req.userId and req.userRole from the token
authMiddleware(token) ==
  IF token = "none" \/ token = "expired-token"
  THEN [status |-> 401, userId |-> "none", role |-> "none"]
  ELSE [status |-> 200,
        userId |-> IF token = AdminToken THEN Admin
                   ELSE IF token = OtherToken THEN OtherUser ELSE User,
        role |-> IF token = AdminToken THEN "admin" ELSE "user"]

\* a role check that lets every authenticated caller through
AdminOnlyOpen(auth) == 200

\* if (req.userRole !== "admin") return res.status(403)
AdminOnly(auth) == IF auth.role # "admin" THEN 403 ELSE 200

\* a validation that lets every body through
FieldMissingNever(text) == FALSE

\* if (!message), if (!description)
FieldMissing(text) == text = Null

\* a request answered before its handler does anything: only the answer remains
Reject(kind, code, body) == Respond([IdleReq EXCEPT !.kind = kind], code, body)

Key0 == [orderId |-> "o1", productIndex |-> 0]

\* the stores are empty and the user has selected the first product of the order
InitStores ==
  /\ selected = Key0
  /\ cases = <<>>
  /\ agentOnly = <<>>
  /\ memory = <<>>
  /\ chatLog = [k \in Keys |-> <<>>]
  /\ published = {}
  /\ reqs = [r \in ReqIds |-> IdleReq]
  /\ call = NoCall
  /\ shown = <<>>
  /\ retention = [k \in Keys |-> [ttl |-> 0, ages |-> <<>>]]
  /\ rooms = {}

Init == build = "server" /\ faults = FALSE /\ InitStores
\* server.js with external calls that may fail
InitFaults == build = "server" /\ faults = TRUE /\ InitStores
InitDeploy == build = "deploy" /\ faults = FALSE /\ InitStores

(***************************************************************************)
(* Product selection: POST /api/select-product, /api/clear-selected-product*)
(***************************************************************************)
\* redis del then set; the moment between the two is the state ClearSelected
\* leaves, so the pair is one step here
SelectProduct(r, key, token) ==
  IF authMiddleware(token).status # 200
  THEN /\ CanStart(r)
       /\ reqs' = [reqs EXCEPT ![r] = Reject("select", 401, "unauthorized")]
       /\ UNCHANGED <<retention, shown, call, faults, build, rooms, selected, cases, agentOnly, memory, chatLog, published>>
  ELSE IF key \notin Keys
  THEN /\ CanStart(r)
       /\ reqs' = [reqs EXCEPT ![r] = Reject("select", 400, "invalid-order-or-product")]
       /\ UNCHANGED <<retention, shown, call, faults, build, rooms, selected, cases, agentOnly, memory, chatLog, published>>
  ELSE /\ selected' = key
       /\ UNCHANGED <<retention, shown, call, faults, build, rooms, cases, agentOnly, memory, chatLog, published, reqs>>

ClearSelected(r, token) ==
  IF authMiddleware(token).status # 200
  THEN /\ CanStart(r)
       /\ reqs' = [reqs EXCEPT ![r] = Reject("clear", 401, "unauthorized")]
       /\ UNCHANGED <<retention, shown, call, faults, build, rooms, selected, cases, agentOnly, memory, chatLog, published>>
  ELSE /\ selected # NoKey
       /\ selected' = NoKey
       /\ UNCHANGED <<retention, shown, call, faults, build, rooms, cases, agentOnly, memory, chatLog, published, reqs>>

\* a login that leaves the selected product in place
LoginKeepsSelected(r, ok) ==
  /\ CanStart(r)
  /\ reqs' = [reqs EXCEPT ![r] =
       IF ok THEN Respond([IdleReq EXCEPT !.kind = "login"], 200, "token")
       ELSE Reject("login", 400, "invalid-credentials")]
  /\ UNCHANGED <<retention, shown, call, faults, build, rooms, selected, cases, agentOnly, memory,
                 chatLog, published>>

\* POST /api/login: with the right email and password the user's cache entry is
\* set and the legacy chat key and the selected product are deleted
Login(r, ok) ==
  /\ CanStart(r)
  /\ reqs' = [reqs EXCEPT ![r] =
       IF ok THEN Respond([IdleReq EXCEPT !.kind = "login"], 200, "token")
       ELSE Reject("login", 400, "invalid-credentials")]
  /\ selected' = IF ok THEN NoKey ELSE selected
  /\ UNCHANGED <<retention, shown, call, faults, build, rooms, cases, agentOnly, memory, chatLog,
                 published>>

\* POST /api/logout: the cache entry, the legacy chat key and the selected
\* product are deleted
Logout(r, token) ==
  /\ CanStart(r)
  /\ reqs' = [reqs EXCEPT ![r] =
       IF authMiddleware(token).status # 200 THEN Reject("logout", 401, "unauthorized")
       ELSE Respond([IdleReq EXCEPT !.kind = "logout"], 200, "logout-successful")]
  /\ selected' = IF authMiddleware(token).status # 200 THEN selected ELSE NoKey
  /\ UNCHANGED <<retention, shown, call, faults, build, rooms, cases, agentOnly, memory, chatLog,
                 published>>

\* the selected product was stored with EX SELECTED_TTL: the key vanishes when
\* that time has passed without a new selection
SELECTED_TTL == 3600
SelectedExpires ==
  /\ selected # NoKey
  /\ selected' = NoKey
  /\ UNCHANGED <<retention, shown, call, faults, build, rooms, cases, agentOnly, memory, chatLog,
                 published, reqs>>

(***************************************************************************)
(* POST /api/chat                                                          *)
(*                                                                         *)
(* Awaited calls that read nothing another request writes are joined to    *)
(* the step before them: the read of the selected product to the first     *)
(* Case.findOne, checkFaq (the FAQ corpus is static) to the lock check,    *)
(* callGemini to the case-memory search, expire and the emits to rPush.    *)
(***************************************************************************)
\* a source tag that names the path for every turn
TurnSourceStage(path) == path

\* the source tag of the stored turn: the refund turn of server.js has none
TurnSource(path) ==
  IF path = "lock" THEN "user"
  ELSE IF path = "refund" /\ build = "server" THEN "undefined"
  ELSE path

\* the emits without the mirror to the agents' dashboards
ChatEventsUserOnly(r, q) ==
  IF q.path = "lock" THEN {}
  ELSE {Emit(UserRoom, "chat:reply", r, q.path, q.reply, "-")}

\* what the handler emits once its turn is stored
ChatEvents(r, q) ==
  IF q.path = "lock"
  THEN {Emit(AgentsRoom, "chat:user", r, "-", q.msg, "-")}
  ELSE {Emit(UserRoom, "chat:reply", r, q.path, q.reply, "-"),
        Emit(AgentsRoom, "chat:reply", r, q.path, q.reply, "-")}
       \cup (IF build = "server" /\ q.path \in {"refund", "llm"}
             THEN {Emit(UserRoom, "case:status", r, "-", Null, q.doc.status)}
             ELSE {})

ChatResult(q) ==
  IF q.path = "lock" THEN Respond(q, 200, "queued") ELSE Respond(q, 200, "reply")

\* token and message checked, selected product read, Case.findOne for its (order,
\* product)
ChatStart(r, m, token) ==
  /\ CanStart(r)
  /\ LET q == [IdleReq EXCEPT !.kind = "chat", !.msg = m, !.key = selected,
                              !.token = token]
         id == FindCase(cases, selected)
     IN reqs' = [reqs EXCEPT ![r] =
          IF authMiddleware(token).status # 200 THEN Reject("chat", 401, "unauthorized")
          ELSE IF FieldMissing(m) THEN Reject("chat", 400, "message-required")
          ELSE IF selected = NoKey THEN Respond(q, 400, "select-product-first")
          ELSE IF id = NoCase THEN [q EXCEPT !.pc = "ensureCase"]
          ELSE [q EXCEPT !.pc = "triage", !.caseId = id,
                         !.seenStatus = cases[id].status]]
  /\ UNCHANGED <<retention, shown, call, faults, build, rooms, selected, cases, agentOnly, memory, chatLog, published>>

\* new Case({... description: message, priority: "low", status: "open"}).save();
\* a duplicate-key error lands in the handler's catch: 500
ChatEnsureCase(r) ==
  /\ At(r, "chat", "ensureCase")
  /\ LET q == reqs[r]
     IN IF UniqueIndexAllows(cases, q.key)
        THEN /\ cases' = Append(cases, NewCase(q.key, q.msg, "low", DomainOf(q.key)))
             /\ reqs' = [reqs EXCEPT ![r] =
                  [@ EXCEPT !.pc = "triage", !.caseId = Len(cases) + 1]]
        ELSE /\ cases' = cases
             /\ reqs' = [reqs EXCEPT ![r] = Respond(@, 500, "failed-to-process-chat")]
  /\ UNCHANGED <<retention, shown, call, faults, build, rooms, selected, agentOnly, memory, chatLog, published>>

\* isAgentOnly(caseId); when off, the refund keywords (server.js only), then checkFaq
ChatTriage(r) ==
  /\ At(r, "chat", "triage")
  /\ \E embedOk \in EmbedOutcomes :
       LET q == [reqs[r] EXCEPT !.lockAtCheck = reqs[r].caseId \in DOMAIN agentOnly]
           faqHit == checkFaq(q.msg, DomainOf(q.key), embedOk)
       IN reqs' = [reqs EXCEPT ![r] =
            IF isAgentOnly(agentOnly, q.caseId)
            THEN [q EXCEPT !.pc = "push", !.path = "lock", !.reply = Null,
                           !.turnCase = q.caseId, !.stages = <<"lock">>]
            ELSE IF build = "server" /\ IsRefund(q.msg)
            THEN [q EXCEPT !.pc = "refundFind", !.stages = <<"refund">>,
                           !.sla = computeSLA("high", analyzeSentiment(q.msg).label)]
            ELSE IF faqHit.threw
            THEN Respond([q EXCEPT !.failed = @ \cup {"faq"}], 500,
                         "failed-to-process-chat")
            ELSE IF faqHit.hit
            THEN [q EXCEPT !.pc = "push", !.path = "faq", !.reply = faqHit.answer,
                           !.turnCase = NoCase, !.stages = <<"faq">>]
            ELSE [q EXCEPT !.pc = "caseMemory", !.stages = <<"faq">>,
                           !.failed = IF embedOk THEN @ ELSE @ \cup {"faq"}]]
  /\ UNCHANGED <<retention, shown, call, faults, build, rooms, selected, cases, agentOnly, memory, chatLog, published>>

\* refund path: Case.findOne
ChatRefundFind(r) ==
  /\ At(r, "chat", "refundFind")
  /\ LET id == FindCase(cases, reqs[r].key)
     IN reqs' = [reqs EXCEPT ![r] =
          [@ EXCEPT !.pc = "refundSave", !.caseId = id,
                    !.doc = IF id = NoCase THEN NoDoc ELSE DocOf(cases[id])]]
  /\ UNCHANGED <<retention, shown, call, faults, build, rooms, selected, cases, agentOnly, memory, chatLog, published>>

\* refund path: create, or overwrite description, priority, domain and status
ChatRefundSave(r) ==
  /\ At(r, "chat", "refundSave")
  /\ LET q == reqs[r]
         description == <<"[Refund Request]">> \o q.msg
         domain == DomainOf(q.key)
         new == [q.doc EXCEPT !.description = description, !.priority = "high",
                              !.domain = domain, !.status = "open"]
     IN IF q.caseId = NoCase
        THEN IF UniqueIndexAllows(cases, q.key)
             THEN /\ cases' = Append(cases, NewCase(q.key, description, "high", domain))
                  /\ reqs' = [reqs EXCEPT ![r] =
                       [@ EXCEPT !.pc = "refundIndex", !.caseId = Len(cases) + 1,
                                 !.doc = DocOf(NewCase(q.key, description, "high", domain))]]
             ELSE /\ cases' = cases
                  /\ reqs' = [reqs EXCEPT ![r] = Respond(@, 500, "failed-to-process-chat")]
        ELSE /\ cases' = [cases EXCEPT ![q.caseId] = SaveModified(@, q.doc, new)]
             /\ reqs' = [reqs EXCEPT ![r] = [@ EXCEPT !.pc = "refundIndex", !.doc = new]]
  /\ UNCHANGED <<retention, shown, call, faults, build, rooms, selected, agentOnly, memory, chatLog, published>>

\* refund path: indexCase(csCase), then the fixed escalation reply
ChatRefundIndex(r) ==
  /\ At(r, "chat", "refundIndex")
  /\ \E embedOk \in EmbedOutcomes :
       /\ memory' = indexCase(memory, reqs[r].caseId, reqs[r].doc, embedOk)
       /\ reqs' = [reqs EXCEPT ![r] =
            [@ EXCEPT !.pc = "push", !.path = "refund", !.reply = RefundReply,
                      !.turnCase = reqs[r].caseId,
                      !.failed = IF embedOk THEN @ ELSE @ \cup {"index"}]]
  /\ UNCHANGED <<retention, shown, call, faults, build, rooms, selected, cases, agentOnly, chatLog, published>>

\* case-memory stage: searchSimilarCases(message, domain, K); on no hit the
\* generative stage: callGemini(prompt), or the static escalation text when it throws
ChatCaseMemory(r) ==
  /\ At(r, "chat", "caseMemory")
  /\ \E embedOk \in EmbedOutcomes, outcomes \in GeminiOutcomes :
       LET q == [reqs[r] EXCEPT !.failed = IF embedOk THEN @ ELSE @ \cup {"case-memory"}]
           similar == searchSimilarCases(memory, q.msg, DomainOf(q.key), SIM_TOP_K, embedOk)
           llm == LlmReply(outcomes)
           g == [q EXCEPT !.reply = llm.text, !.stages = @ \o <<"case-memory", "llm">>,
                          !.failed = IF callGemini(outcomes).threw
                                     THEN @ \cup {"llm"} ELSE @]
       IN reqs' = [reqs EXCEPT ![r] =
            IF similar # <<>> /\ ScoreAtLeast(similar[1].score, SIM_CASE_THRESHOLD)
            THEN [q EXCEPT !.pc = "push", !.path = "case-memory",
                           !.reply = buildMemoryReply(similar[1].summary, q.key.orderId),
                           !.turnCase = similar[1].caseId,
                           !.stages = Append(@, "case-memory")]
            ELSE IF llm.threw
            THEN Respond(g, 500, "failed-to-process-chat")
            ELSE IF build = "server"
            THEN [g EXCEPT !.pc = "llmFind",
                           !.sla = computeSLA(LlmPriority(q.msg),
                                     analyzeSentiment(q.msg \o llm.text).label)]
            ELSE [g EXCEPT !.pc = "push", !.path = "llm", !.turnCase = NoCase]]
  /\ UNCHANGED <<retention, shown, call, faults, build, rooms, selected, cases, agentOnly, memory, chatLog, published>>

\* generative path (server.js): Case.findOne
ChatLlmFind(r) ==
  /\ At(r, "chat", "llmFind")
  /\ LET id == FindCase(cases, reqs[r].key)
     IN reqs' = [reqs EXCEPT ![r] =
          [@ EXCEPT !.pc = "llmSave", !.caseId = id,
                    !.doc = IF id = NoCase THEN NoDoc ELSE DocOf(cases[id])]]
  /\ UNCHANGED <<retention, shown, call, faults, build, rooms, selected, cases, agentOnly, memory, chatLog, published>>

\* generative path (server.js): create, or overwrite description, priority and
\* domain and reopen a resolved case
ChatLlmSave(r) ==
  /\ At(r, "chat", "llmSave")
  /\ LET q == reqs[r]
         priority == LlmPriority(q.msg)
         domain == DomainOf(q.key)
         new == [q.doc EXCEPT !.description = q.msg, !.priority = priority,
                              !.domain = domain,
                              !.status = IF @ = "resolved" THEN "open" ELSE @]
     IN IF q.caseId = NoCase
        THEN IF UniqueIndexAllows(cases, q.key)
             THEN /\ cases' = Append(cases, NewCase(q.key, q.msg, priority, domain))
                  /\ reqs' = [reqs EXCEPT ![r] =
                       [@ EXCEPT !.pc = "llmIndex", !.caseId = Len(cases) + 1,
                                 !.doc = DocOf(NewCase(q.key, q.msg, priority, domain))]]
             ELSE /\ cases' = cases
                  /\ reqs' = [reqs EXCEPT ![r] = Respond(@, 500, "failed-to-process-chat")]
        ELSE /\ cases' = [cases EXCEPT ![q.caseId] = SaveModified(@, q.doc, new)]
             /\ reqs' = [reqs EXCEPT ![r] = [@ EXCEPT !.pc = "llmIndex", !.doc = new]]
  /\ UNCHANGED <<retention, shown, call, faults, build, rooms, selected, agentOnly, memory, chatLog, published>>

\* generative path (server.js): indexCase(csCase)
ChatLlmIndex(r) ==
  /\ At(r, "chat", "llmIndex")
  /\ \E embedOk \in EmbedOutcomes :
       /\ memory' = indexCase(memory, reqs[r].caseId, reqs[r].doc, embedOk)
       /\ reqs' = [reqs EXCEPT ![r] =
            [@ EXCEPT !.pc = "push", !.path = "llm", !.turnCase = reqs[r].caseId,
                      !.failed = IF embedOk THEN @ ELSE @ \cup {"index"}]]
  /\ UNCHANGED <<retention, shown, call, faults, build, rooms, selected, cases, agentOnly, chatLog, published>>

\* redisClient.rPush(chatKey, turn), expire(chatKey, 86400), the emits, the answer
ChatPush(r) ==
  /\ At(r, "chat", "push")
  /\ LET q == reqs[r]
     IN /\ chatLog' = [chatLog EXCEPT ![q.key] =
                         Append(@, Turn(r, q.msg, q.reply, TurnSource(q.path), q.turnCase))]
        /\ published' = published \cup ChatEvents(r, q)
        /\ retention' = [retention EXCEPT ![q.key] =
                           [ttl |-> CHAT_TTL, ages |-> Append(@.ages, 0)]]
        /\ shown' = ShowStatus(shown, q.caseId, ChatEvents(r, q))
        /\ reqs' = [reqs EXCEPT ![r] = ChatResult(q)]
  /\ UNCHANGED <<call, faults, build, rooms, selected, cases, agentOnly, memory>>

\* time passes for the chat keys: a key loses ChatTickSeconds and its list
\* vanishes with it at 0; the turns of the other lists grow older
ChatTick ==
  /\ \E k \in Keys : retention[k].ttl > 0
  /\ retention' =
       [k \in Keys |->
          IF retention[k].ttl > ChatTickSeconds
          THEN [ttl |-> retention[k].ttl - ChatTickSeconds,
                ages |-> [i \in 1..Len(retention[k].ages) |->
                            retention[k].ages[i] + ChatTickSeconds]]
          ELSE [ttl |-> 0, ages |-> <<>>]]
  /\ chatLog' = [k \in Keys |->
                   IF retention[k].ttl > ChatTickSeconds THEN chatLog[k] ELSE <<>>]
  /\ UNCHANGED <<shown, call, faults, build, rooms, selected, cases, agentOnly, memory,
                 published, reqs>>

(***************************************************************************)
(* POST /api/case/:id/response (server.js): the agent answers              *)
(***************************************************************************)
\* Case.findByIdAndUpdate(id, {$push: {responses}, status: "in-progress"})
AgentResponseUpdate(c, message) ==
  [c EXCEPT !.responses = Append(@, [adminId |-> Admin, message |-> message]),
            !.status = "in-progress"]

ResponseEvents(r, caseId, message) ==
  {Emit(CaseRoom(caseId), "case:message", r, "agent", message, "-"),
   Emit(UserRoom, "case:message", r, "agent", message, "-"),
   Emit(CaseRoom(caseId), "case:status", r, "-", Null, "in-progress"),
   Emit(UserRoom, "case:status", r, "-", Null, "in-progress"),
   Emit(UserRoom, "chat:reply", r, "agent", message, "-"),
   Emit(AgentsRoom, "chat:reply", r, "agent", message, "-")}

\* role and message checked; the update and, after it, the emits to the case
\* room, the user and the agents
ResponseStart(r, caseId, message, token) ==
  /\ build = "server"
  /\ CanStart(r)
  /\ IF authMiddleware(token).status # 200
     THEN /\ UNCHANGED <<cases, published, shown>>
          /\ reqs' = [reqs EXCEPT ![r] = Reject("response", 401, "unauthorized")]
     ELSE IF AdminOnly(authMiddleware(token)) # 200
     THEN /\ UNCHANGED <<cases, published, shown>>
          /\ reqs' = [reqs EXCEPT ![r] = Reject("response", 403, "admin-access-required")]
     ELSE IF FieldMissing(message)
     THEN /\ UNCHANGED <<cases, published, shown>>
          /\ reqs' = [reqs EXCEPT ![r] = Reject("response", 400, "message-required")]
     ELSE IF caseId \in 1..Len(cases)
     THEN /\ cases' = [cases EXCEPT ![caseId] = AgentResponseUpdate(@, message)]
          /\ published' = published \cup ResponseEvents(r, caseId, message)
          /\ shown' = ShowStatus(shown, caseId, ResponseEvents(r, caseId, message))
          /\ reqs' = [reqs EXCEPT ![r] =
               [IdleReq EXCEPT !.kind = "response", !.pc = "setLock",
                               !.caseId = caseId, !.msg = message, !.token = token]]
     ELSE /\ UNCHANGED <<cases, published, shown>>
          /\ reqs' = [reqs EXCEPT ![r] =
               Respond([IdleReq EXCEPT !.kind = "response", !.caseId = caseId,
                                       !.msg = message, !.token = token],
                       404, "case-not-found")]
  /\ UNCHANGED <<retention, call, faults, build, rooms, selected, agentOnly, memory, chatLog>>

\* setAgentOnly(updatedCase._id), then the answer
\* setAgentOnly awaits redisClient.set; a rejected command throws into the
\* handler's catch: 500
RedisOutcomes == IF faults THEN BOOLEAN ELSE {TRUE}

\* await setAgentOnly(updatedCase._id), then the answer
ResponseSetLock(r) ==
  /\ At(r, "response", "setLock")
  /\ \E redisOk \in RedisOutcomes :
       IF redisOk
       THEN /\ agentOnly' = setAgentOnly(agentOnly, reqs[r].caseId)
            /\ reqs' = [reqs EXCEPT ![r] = Respond(@, 200, "response-added")]
       ELSE /\ agentOnly' = agentOnly
            /\ reqs' = [reqs EXCEPT ![r] = Respond(@, 500, "failed-to-add-response")]
  /\ UNCHANGED <<retention, shown, call, faults, build, rooms, selected, cases, memory, chatLog, published>>

(***************************************************************************)
(* PUT /api/case/:id (server.js): the admin updates status or priority     *)
(***************************************************************************)
UpdateInputs ==
  { [status |-> s, priority |-> "none"] : s \in {"open", "resolved"} }
  \cup { [status |-> "none", priority |-> "low"] }

\* Case.findByIdAndUpdate(caseId, {...updates, updatedAt})
AdminUpdate(c, updates) ==
  [c EXCEPT !.status = IF updates.status # "none" THEN updates.status ELSE @,
            !.priority = IF updates.priority # "none" THEN updates.priority ELSE @]

ClosingResponse == [adminId |-> Admin, message |-> ClosingNote]

\* the update; a case that is now not resolved gets its status broadcast, a
\* resolved one gets the closing note pushed on the local document
UpdateStart(r, caseId, updates, token) ==
  /\ build = "server"
  /\ CanStart(r)
  /\ LET q == [IdleReq EXCEPT !.kind = "update", !.caseId = caseId, !.updates = updates,
                              !.token = token]
     IN IF authMiddleware(token).status # 200
        THEN /\ UNCHANGED <<cases, published, shown>>
             /\ reqs' = [reqs EXCEPT ![r] = Reject("update", 401, "unauthorized")]
        ELSE IF AdminOnly(authMiddleware(token)) # 200
        THEN /\ UNCHANGED <<cases, published, shown>>
             /\ reqs' = [reqs EXCEPT ![r] = Reject("update", 403, "admin-access-required")]
        ELSE IF updates.priority \notin {"none", "high", "low"}
        THEN /\ UNCHANGED <<cases, published, shown>>
             /\ reqs' = [reqs EXCEPT ![r] = Reject("update", 400, "invalid-priority")]
        ELSE IF caseId \in 1..Len(cases)
        THEN LET c == AdminUpdate(cases[caseId], updates)
             IN /\ cases' = [cases EXCEPT ![caseId] = c]
                /\ IF c.status = "resolved"
                   THEN /\ published' = published
                        /\ shown' = shown
                        /\ reqs' = [reqs EXCEPT ![r] =
                             [q EXCEPT !.pc = "saveNote",
                                       !.doc = [DocOf(c) EXCEPT !.responses =
                                                  Append(@, ClosingResponse)]]]
                   ELSE /\ published' = published \cup
                             {Emit(CaseRoom(caseId), "case:status", r, "-", Null, c.status),
                              Emit(UserRoom, "case:status", r, "-", Null, c.status)}
                        /\ shown' = ShowStatus(shown, caseId,
                                       {Emit(UserRoom, "case:status", r, "-", Null, c.status)})
                        /\ reqs' = [reqs EXCEPT ![r] = Respond(q, 200, "case-updated")]
        ELSE /\ UNCHANGED <<cases, published, shown>>
             /\ reqs' = [reqs EXCEPT ![r] = Respond(q, 404, "case-not-found")]
  /\ UNCHANGED <<retention, call, faults, build, rooms, selected, agentOnly, memory, chatLog>>

ResolvedEvents(r, caseId) ==
  {Emit(CaseRoom(caseId), "case:message", r, "agent", ClosingNote, "-"),
   Emit(CaseRoom(caseId), "case:status", r, "-", Null, "resolved"),
   Emit(UserRoom, "case:status", r, "-", Null, "resolved"),
   Emit(UserRoom, "chat:reply", r, "agent", ClosingNote, "-"),
   Emit(AgentsRoom, "chat:reply", r, "agent", ClosingNote, "-")}

\* updatedCase.save(): the pushed closing note reaches the stored array; then the emits
UpdateSaveNote(r) ==
  /\ At(r, "update", "saveNote")
  /\ cases' = [cases EXCEPT ![reqs[r].caseId] =
                 [@ EXCEPT !.responses = Append(@, ClosingResponse)]]
  /\ published' = published \cup ResolvedEvents(r, reqs[r].caseId)
  /\ shown' = ShowStatus(shown, reqs[r].caseId, ResolvedEvents(r, reqs[r].caseId))
  /\ reqs' = [reqs EXCEPT ![r] = [@ EXCEPT !.pc = "clearLock"]]
  /\ UNCHANGED <<retention, call, faults, build, rooms, selected, agentOnly, memory, chatLog>>

\* clearAgentOnly(updatedCase._id)
UpdateClearLock(r) ==
  /\ At(r, "update", "clearLock")
  /\ agentOnly' = clearAgentOnly(agentOnly, reqs[r].caseId)
  /\ reqs' = [reqs EXCEPT ![r] = [@ EXCEPT !.pc = "indexSummary"]]
  /\ UNCHANGED <<retention, shown, call, faults, build, rooms, selected, cases, memory, chatLog, published>>

RECURSIVE JoinResponses(_)
JoinResponses(rs) ==
  IF rs = <<>> THEN <<>>
  ELSE LET line == <<IF Head(rs).adminId # NoAdmin THEN "Agent:" ELSE "User/Bot:">>
                   \o Head(rs).message
       IN IF Len(rs) = 1 THEN line ELSE line \o <<"|">> \o JoinResponses(Tail(rs))

SUMMARY_RESPONSES == 6
SUMMARY_BUDGET == 480

\* "Resolution Summary: " + the last 6 responses, role-prefixed, joined, cut
SummaryText(responses) ==
  <<"Resolution Summary:">>
    \o Slice(JoinResponses(LastN(responses, SUMMARY_RESPONSES)), SUMMARY_BUDGET)

\* indexResolutionSummary(updatedCase, summaryText), then the answer
UpdateIndexSummary(r) ==
  /\ At(r, "update", "indexSummary")
  /\ \E embedOk \in EmbedOutcomes :
       memory' = indexResolutionSummary(memory, reqs[r].caseId, reqs[r].doc,
                                        SummaryText(reqs[r].doc.responses), embedOk)
  /\ reqs' = [reqs EXCEPT ![r] = Respond(@, 200, "case-updated")]
  /\ UNCHANGED <<retention, shown, call, faults, build, rooms, selected, cases, agentOnly, chatLog, published>>

(***************************************************************************)
(* PUT /api/case/:id/agent-only (server.js)                                *)
(***************************************************************************)
\* role check, Case.exists, then setAgentOnly or clearAgentOnly; cases are never
\* deleted, so the two awaits are one step.  The answer of an accepted toggle
\* carries nothing that is inspected later, so only a refused one is recorded
ToggleAgentOnly(r, caseId, enabled, token) ==
  /\ build = "server"
  /\ caseId \in 1..Len(cases)
  /\ IF authMiddleware(token).status # 200
     THEN /\ CanStart(r)
          /\ reqs' = [reqs EXCEPT ![r] = Reject("toggle", 401, "unauthorized")]
          /\ UNCHANGED agentOnly
     ELSE IF AdminOnly(authMiddleware(token)) # 200
     THEN /\ CanStart(r)
          /\ reqs' = [reqs EXCEPT ![r] = Reject("toggle", 403, "admin-access-required")]
          /\ UNCHANGED agentOnly
     ELSE /\ agentOnly' = IF enabled THEN setAgentOnly(agentOnly, caseId)
                          ELSE clearAgentOnly(agentOnly, caseId)
          /\ agentOnly' # agentOnly
          /\ UNCHANGED reqs
  /\ UNCHANGED <<retention, shown, call, faults, build, rooms, selected, cases, memory, chatLog, published>>

\* keys that never expire
TickFrozen ==
  /\ DOMAIN agentOnly # {}
  /\ UNCHANGED vars

\* time passes: the expiring keys lose TickSeconds and vanish at 0
Tick ==
  /\ DOMAIN agentOnly # {}
  /\ agentOnly' =
       LET left == { c \in DOMAIN agentOnly : agentOnly[c] > TickSeconds }
       IN [c \in left |-> agentOnly[c] - TickSeconds]
  /\ UNCHANGED <<retention, shown, call, faults, build, rooms, selected, cases, memory, chatLog, published, reqs>>

(***************************************************************************)
(* Reading cases: the listing, the thread, the case rooms (server.js)      *)
(***************************************************************************)
\* GET /api/user/:id/cases: role "user" required, then Case.find({userId: id});
\* the caller's own id is not compared with :id
ListUserCases(r, id, token) ==
  /\ build = "server"
  /\ CanStart(r)
  /\ LET auth == authMiddleware(token)
         q == [IdleReq EXCEPT !.kind = "list", !.token = token]
     IN reqs' = [reqs EXCEPT ![r] =
          IF auth.status # 200 THEN Reject("list", 401, "unauthorized")
          ELSE IF auth.role # "user"
          THEN Respond(q, 403, "user-access-required")
          ELSE Respond([q EXCEPT !.listed =
                          { c \in 1..Len(cases) : cases[c].userId = id }],
                       200, "cases")]
  /\ UNCHANGED <<retention, shown, call, faults, build, rooms, selected, cases,
                 agentOnly, memory, chatLog, published>>

\* GET /api/case/:id/thread: the case, for its owner and for admins
GetThread(r, caseId, token) ==
  /\ build = "server"
  /\ CanStart(r)
  /\ LET auth == authMiddleware(token)
         q == [IdleReq EXCEPT !.kind = "thread", !.token = token, !.caseId = caseId]
     IN reqs' = [reqs EXCEPT ![r] =
          IF auth.status # 200 THEN Reject("thread", 401, "unauthorized")
          ELSE IF caseId \notin 1..Len(cases) THEN Respond(q, 404, "case-not-found")
          ELSE IF cases[caseId].userId # auth.userId /\ auth.role # "admin"
          THEN Respond(q, 403, "forbidden")
          ELSE Respond([q EXCEPT !.listed = {caseId}], 200, "thread")]
  /\ UNCHANGED <<retention, shown, call, faults, build, rooms, selected, cases,
                 agentOnly, memory, chatLog, published>>

\* socket "join_case" {caseId} on a socket whose handshake token verified:
\* socket.join(`case:${caseId}`) for any case id
JoinCase(token, caseId) ==
  /\ build = "server"
  /\ authMiddleware(token).status = 200
  /\ <<authMiddleware(token).userId, caseId>> \notin rooms
  /\ rooms' = rooms \cup {<<authMiddleware(token).userId, caseId>>}
  /\ UNCHANGED <<retention, shown, call, faults, build, selected, cases, agentOnly,
                 memory, chatLog, published, reqs>>

\* socket "leave_case" {caseId}
LeaveCase(token, caseId) ==
  /\ build = "server"
  /\ authMiddleware(token).status = 200
  /\ <<authMiddleware(token).userId, caseId>> \in rooms
  /\ rooms' = rooms \ {<<authMiddleware(token).userId, caseId>>}
  /\ UNCHANGED <<retention, shown, call, faults, build, selected, cases, agentOnly,
                 memory, chatLog, published, reqs>>

(***************************************************************************)
(* POST /api/case: explicit case creation                                  *)
(***************************************************************************)
\* the domain of the created case when the body names none: server.js defaults
\* the body's domain to "E-commerce", part_002 falls back to the product's domain
FinalDomain(key) == IF build = "server" THEN "E-commerce" ELSE DomainOf(key)

\* fields validated, the user's order looked up
CreateStart(r, key, description, token) ==
  /\ CanStart(r)
  /\ reqs' = [reqs EXCEPT ![r] =
       IF authMiddleware(token).status # 200 THEN Reject("create", 401, "unauthorized")
       ELSE IF \/ key.orderId = "none" \/ key.productIndex = MissingIndex
               \/ FieldMissing(description)
       THEN Reject("create", 400, "fields-required")
       ELSE IF key \notin Keys
       THEN Reject("create", 400, "invalid-order-or-product")
       ELSE [IdleReq EXCEPT !.kind = "create", !.pc = "findCase", !.key = key,
                            !.msg = description, !.token = token]]
  /\ UNCHANGED <<retention, shown, call, faults, build, rooms, selected, cases, agentOnly, memory, chatLog, published>>

\* Case.findOne({userId, orderId, productIndex})
CreateFindCase(r) ==
  /\ At(r, "create", "findCase")
  /\ LET id == FindCase(cases, reqs[r].key)
     IN reqs' = [reqs EXCEPT ![r] =
          [@ EXCEPT !.pc = "save", !.caseId = id,
                    !.doc = IF id = NoCase THEN NoDoc ELSE DocOf(cases[id])]]
  /\ UNCHANGED <<retention, shown, call, faults, build, rooms, selected, cases, agentOnly, memory, chatLog, published>>

\* save(): update description, priority and domain of the existing case, or insert
CreateSave(r) ==
  /\ At(r, "create", "save")
  /\ LET q == reqs[r]
         priority == determinePriority(q.msg)
         domain == FinalDomain(q.key)
         new == [q.doc EXCEPT !.description = q.msg, !.priority = priority,
                              !.domain = domain]
     IN IF q.caseId = NoCase
        THEN IF UniqueIndexAllows(cases, q.key)
             THEN /\ cases' = Append(cases, NewCase(q.key, q.msg, priority, domain))
                  /\ reqs' = [reqs EXCEPT ![r] =
                       [@ EXCEPT !.pc = "index", !.caseId = Len(cases) + 1,
                                 !.doc = DocOf(NewCase(q.key, q.msg, priority, domain))]]
             ELSE /\ cases' = cases
                  /\ reqs' = [reqs EXCEPT ![r] = Respond(@, 500, "failed-to-process-case")]
        ELSE /\ cases' = [cases EXCEPT ![q.caseId] = SaveModified(@, q.doc, new)]
             /\ reqs' = [reqs EXCEPT ![r] = [@ EXCEPT !.pc = "index", !.doc = new]]
  /\ UNCHANGED <<retention, shown, call, faults, build, rooms, selected, agentOnly, memory, chatLog, published>>

\* indexCase(newCase), then the answer
CreateIndex(r) ==
  /\ At(r, "create", "index")
  /\ \E embedOk \in EmbedOutcomes :
       memory' = indexCase(memory, reqs[r].caseId, reqs[r].doc, embedOk)
  /\ reqs' = [reqs EXCEPT ![r] = Respond(@, 200, "case-processed")]
  /\ UNCHANGED <<retention, shown, call, faults, build, rooms, selected, cases, agentOnly, chatLog, published>>

(***************************************************************************)
(* The server                                                              *)
(***************************************************************************)
CaseIdInputs == 1..Len(cases)

ChatStep(r) ==
  \/ ChatEnsureCase(r)
  \/ ChatTriage(r)
  \/ ChatCaseMemory(r)
  \/ ChatPush(r)

CreateStep(r) ==
  \/ CreateFindCase(r)
  \/ CreateSave(r)
  \/ CreateIndex(r)

\* server.js
Next ==
  \/ \E r \in ReqIds, m \in Messages : ChatStart(r, m, UserToken)
  \/ \E r \in ReqIds : ChatStep(r)
  \/ \E r \in ReqIds : ChatRefundFind(r)
  \/ \E r \in ReqIds : ChatRefundSave(r)
  \/ \E r \in ReqIds : ChatRefundIndex(r)
  \/ \E r \in ReqIds : ChatLlmFind(r)
  \/ \E r \in ReqIds : ChatLlmSave(r)
  \/ \E r \in ReqIds : ChatLlmIndex(r)
  \/ \E r \in ReqIds, c \in CaseIdInputs : ResponseStart(r, c, AgentMessage, AdminToken)
  \/ \E r \in ReqIds : ResponseSetLock(r)
  \/ \E r \in ReqIds, c \in CaseIdInputs, u \in UpdateInputs :
        UpdateStart(r, c, u, AdminToken)
  \/ \E r \in ReqIds : UpdateSaveNote(r)
  \/ \E r \in ReqIds : UpdateClearLock(r)
  \/ \E r \in ReqIds : UpdateIndexSummary(r)
  \/ \E r \in ReqIds, c \in CaseIdInputs, enabled \in BOOLEAN :
        ToggleAgentOnly(r, c, enabled, AdminToken)
  \/ Tick
  \/ \E r \in ReqIds, d \in Descriptions : CreateStart(r, Key0, d, UserToken)
  \/ \E r \in ReqIds : CreateStep(r)

Spec == Init /\ [][Next]_vars

\* part_002: product selection and chat on either product of the order
NextDeploy ==
  \/ \E r \in ReqIds, key \in Keys : SelectProduct(r, key, UserToken)
  \/ \E r \in ReqIds : ClearSelected(r, UserToken)
  \/ \E r \in ReqIds, m \in Messages : ChatStart(r, m, UserToken)
  \/ \E r \in ReqIds : ChatStep(r)

SpecDeploy == InitDeploy /\ [][NextDeploy]_vars

\* server.js, the chat pipeline with failing embedding and generative calls; the
\* failures are local to a request, so the requests come one after the other
NextFaults ==
  \/ \E r \in ReqIds, m \in Messages : InFlight = {} /\ ChatStart(r, m, UserToken)
  \/ \E r \in ReqIds : ChatStep(r)
  \/ \E r \in ReqIds : ChatRefundFind(r)
  \/ \E r \in ReqIds : ChatRefundSave(r)
  \/ \E r \in ReqIds : ChatRefundIndex(r)
  \/ \E r \in ReqIds : ChatLlmFind(r)
  \/ \E r \in ReqIds : ChatLlmSave(r)
  \/ \E r \in ReqIds : ChatLlmIndex(r)

SpecFaults == InitFaults /\ [][NextFaults]_vars

\* server.js, every caller of the three case-memory functions and of checkFaq,
\* with failing calls: chat, explicit creation and resolution, one after the other
NextBestEffort ==
  \/ \E r \in ReqIds, m \in {MsgLate, MsgBroken} :
        InFlight = {} /\ ChatStart(r, m, UserToken)
  \/ \E r \in ReqIds : ChatEnsureCase(r)
  \/ \E r \in ReqIds : ChatTriage(r)
  \/ \E r \in ReqIds : ChatCaseMemory(r)
  \/ \E r \in ReqIds : ChatLlmFind(r)
  \/ \E r \in ReqIds : ChatLlmSave(r)
  \/ \E r \in ReqIds : ChatLlmIndex(r)
  \/ \E r \in ReqIds : ChatPush(r)
  \/ \E r \in ReqIds : InFlight = {} /\ CreateStart(r, Key0, MsgBroken, UserToken)
  \/ \E r \in ReqIds : CreateFindCase(r)
  \/ \E r \in ReqIds : CreateSave(r)
  \/ \E r \in ReqIds : CreateIndex(r)
  \/ \E r \in ReqIds, c \in CaseIdInputs :
        /\ InFlight = {}
        /\ UpdateStart(r, c, [status |-> "resolved", priority |-> "none"], AdminToken)
  \/ \E r \in ReqIds : UpdateSaveNote(r)
  \/ \E r \in ReqIds : UpdateClearLock(r)
  \/ \E r \in ReqIds : UpdateIndexSummary(r)

SpecBestEffort == InitFaults /\ [][NextBestEffort]_vars

\* server.js, every endpoint called with and without a valid token, by the user
\* and by the admin, with and without its required fields; of the chat pipeline
\* the lock and FAQ paths
GateMessages == {MsgLate, Null}
GateDescriptions == {MsgBroken, Null}
GateKeys == {Key0, NoKey, [orderId |-> "o1", productIndex |-> MissingIndex],
             [orderId |-> "o1", productIndex |-> Len(OrderProducts)]}
GateUpdates == {[status |-> "open", priority |-> "none"],
                [status |-> "none", priority |-> "urgent"]}

NextGate ==
  \/ \E r \in ReqIds, m \in GateMessages, t \in Tokens \ {AdminToken} : ChatStart(r, m, t)
  \/ \E r \in ReqIds : ChatEnsureCase(r)
  \/ \E r \in ReqIds : ChatTriage(r)
  \/ \E r \in ReqIds : ChatPush(r)
  \/ \E r \in ReqIds, c \in CaseIdInputs, m \in {AgentMessage, Null}, t \in Tokens :
        ResponseStart(r, c, m, t)
  \/ \E r \in ReqIds : ResponseSetLock(r)
  \/ \E r \in ReqIds, c \in CaseIdInputs, u \in GateUpdates, t \in Tokens :
        UpdateStart(r, c, u, t)
  \/ \E r \in ReqIds, c \in CaseIdInputs, enabled \in BOOLEAN, t \in Tokens :
        ToggleAgentOnly(r, c, enabled, t)
  \/ \E r \in ReqIds, key \in GateKeys, d \in GateDescriptions,
        t \in Tokens \ {AdminToken} : CreateStart(r, key, d, t)
  \/ \E r \in ReqIds : CreateStep(r)
  \/ \E r \in ReqIds, key \in {Key0, NoKey}, t \in Tokens \ {AdminToken} :
        SelectProduct(r, key, t)
  \/ \E r \in ReqIds, t \in Tokens \ {AdminToken} : ClearSelected(r, t)

SpecGate == Init /\ [][NextGate]_vars

(***************************************************************************)
(* The exported functions called directly, with arguments from small sets  *)
(***************************************************************************)
Called(fn, args, result) ==
  /\ call = NoCall
  /\ call' = [fn |-> fn, args |-> args, result |-> result]
  /\ UNCHANGED <<retention, shown, faults, build, rooms, selected, cases, agentOnly, memory, chatLog,
                 published, reqs>>

FaqQueries == {Null, <<"late">>, <<"refund", "policy">>, <<"delivery", "late">>,
               <<"flight", "late">>, <<"delivery", "late", "late">>,
               <<"item", "broken">>, <<"refund", "policy", "late">>}
FaqDomains == {NoDomain} \cup { OrderProducts[i] : i \in 1..Len(OrderProducts) }

CallCheckFaq ==
  \E m \in FaqQueries, d \in FaqDomains :
    Called("checkFaq", <<m, d>>, checkFaq(m, d, TRUE))

CallComputeSLA ==
  \E priority \in {"high", "low", Undefined},
     sentiment \in {"angry", "cool", "neutral", Undefined} :
    Called("computeSLA", <<priority, sentiment>>, computeSLA(priority, sentiment))

TextPleaseNoHurry == <<"please", "no hurry">>
TextScam == <<"this", "is", "a", "scam", "fraud", "terrible", "!!!">>
TextOk == <<"ok">>
SentimentTexts ==
  {TextPleaseNoHurry, TextScam, TextOk, Null, MsgBroken, MsgLate, MsgRefundAngry,
   <<"ok", ":)", ":(">>, <<"mad", "hate", "please", "fine">>, <<"thanks">>,
   <<"scam", ":)">>, <<"late", "!!!", ":(">>, <<"late", ":)">>,
   <<"mad", "mad", "mad">>, <<"fine", "fine", ":)", ":)">>,
   <<"late", "!!!", "!!!", "?!?!">>, <<"please", "fine", "cool">>}

CallAnalyzeSentiment ==
  \E text \in SentimentTexts :
    Called("analyzeSentiment", text, analyzeSentiment(text))

VectorValues == {-1, 0, 1, 2}
Vectors ==
  {<<>>} \cup { <<x>> : x \in VectorValues }
         \cup { <<x, y>> : x, y \in VectorValues }
         \cup { <<1, 1, 1>>, <<2, 2, 2>>, <<0, 0, 1>>, <<1, 2, 0>> }

CallCosine ==
  \E a, b \in Vectors :
    Called("cosine", <<a, b>>, [faq |-> cosineSimilarity(a, b), mem |-> cosine(a, b)])

CallGemini ==
  \E outcomes \in [1..Len(GEMINI_MODELS) -> ModelOutcomes] :
    Called("callGemini", outcomes, callGemini(outcomes))

\* the CaseMemory collection at the time of a search: up to MaxCorpus records of
\* these kinds, and one collection longer than the scan limit whose best match
\* is its last record
MaxCorpus == 3
MemoryKinds ==
  {[summary |-> <<"delivery", "late">>, domain |-> "E-commerce"],
   [summary |-> <<"delivery", "late">>, domain |-> "Travel"],
   [summary |-> <<"late">>, domain |-> "E-commerce"],
   [summary |-> <<"item", "broken">>, domain |-> "E-commerce"]}
Corpus(kinds) ==
  [i \in 1..Len(kinds) |->
     [caseId |-> i, summary |-> kinds[i].summary, domain |-> kinds[i].domain]]
LongCorpus ==
  [i \in 1..(MEMORY_SCAN_LIMIT + 1) |->
     [caseId |-> i,
      summary |-> IF i > MEMORY_SCAN_LIMIT THEN <<"delivery", "late">>
                  ELSE <<"late">>,
      domain |-> "E-commerce"]]
Corpora ==
  {LongCorpus} \cup
  UNION { { Corpus(kinds) : kinds \in [1..n -> MemoryKinds] } : n \in 0..MaxCorpus }

CallSearch ==
  \E mem \in Corpora, text \in {MsgLate, MsgBroken}, d \in FaqDomains,
     topK \in {1, SIM_TOP_K}, embedOk \in BOOLEAN :
    Called("searchSimilarCases", <<mem, text, d, topK>>,
           searchSimilarCases(mem, text, d, topK, embedOk))

NextCalls ==
  \/ CallSearch
  \/ CallCheckFaq
  \/ CallGemini
  \/ CallCosine
  \/ CallAnalyzeSentiment
  \/ CallComputeSLA

SpecCalls == Init /\ [][NextCalls]_vars

\* server.js, the life of the agent-only lock: agent responses, toggles by the
\* admin and attempts by the user, resolutions, expiry, and user messages on the
\* lock and FAQ paths
NextLock ==
  \/ \E r \in ReqIds : ChatStart(r, MsgLate, UserToken)
  \/ \E r \in ReqIds : ChatEnsureCase(r)
  \/ \E r \in ReqIds : ChatTriage(r)
  \/ \E r \in ReqIds : ChatPush(r)
  \/ \E r \in ReqIds, c \in CaseIdInputs, t \in {UserToken, AdminToken} :
        ResponseStart(r, c, AgentMessage, t)
  \/ \E r \in ReqIds : ResponseSetLock(r)
  \/ \E r \in ReqIds, c \in CaseIdInputs :
        UpdateStart(r, c, [status |-> "resolved", priority |-> "none"], AdminToken)
  \/ \E r \in ReqIds : UpdateSaveNote(r)
  \/ \E r \in ReqIds : UpdateClearLock(r)
  \/ \E r \in ReqIds : UpdateIndexSummary(r)
  \/ \E r \in ReqIds, c \in CaseIdInputs, enabled \in BOOLEAN,
        t \in {UserToken, AdminToken} : ToggleAgentOnly(r, c, enabled, t)
  \/ Tick

SpecLock == Init /\ [][NextLock]_vars

\* server.js, the selected product: selections, clears, logins, logouts and
\* expiry between the user's messages
NextSelect ==
  \/ \E r \in ReqIds, key \in Keys : SelectProduct(r, key, UserToken)
  \/ \E r \in ReqIds : ClearSelected(r, UserToken)
  \/ \E r \in ReqIds, ok \in BOOLEAN : Login(r, ok)
  \/ \E r \in ReqIds : Logout(r, UserToken)
  \/ SelectedExpires
  \/ \E r \in ReqIds : ChatStart(r, MsgLate, UserToken)
  \/ \E r \in ReqIds : ChatEnsureCase(r)
  \/ \E r \in ReqIds : ChatTriage(r)
  \/ \E r \in ReqIds : ChatCaseMemory(r)
  \/ \E r \in ReqIds : ChatLlmFind(r)
  \/ \E r \in ReqIds : ChatLlmSave(r)
  \/ \E r \in ReqIds : ChatLlmIndex(r)
  \/ \E r \in ReqIds : ChatPush(r)

SpecSelect == Init /\ [][NextSelect]_vars

\* server.js when redis may refuse a command: one message of the user, then
\* agent responses
NextResponseFaults ==
  \/ \E r \in ReqIds : InFlight = {} /\ ChatStart(r, MsgLate, UserToken)
  \/ \E r \in ReqIds : ChatStep(r)
  \/ \E r \in ReqIds : ChatLlmFind(r)
  \/ \E r \in ReqIds : ChatLlmSave(r)
  \/ \E r \in ReqIds : ChatLlmIndex(r)
  \/ \E r \in ReqIds, c \in CaseIdInputs :
        InFlight = {} /\ ResponseStart(r, c, AgentMessage, AdminToken)
  \/ \E r \in ReqIds : ResponseSetLock(r)

SpecResponseFaults == InitFaults /\ [][NextResponseFaults]_vars

\* server.js, explicit case creation for either product of the order, with a
\* body that names no domain
NextCreate ==
  \/ \E r \in ReqIds, key \in Keys, d \in Descriptions :
        CreateStart(r, key, d, UserToken)
  \/ \E r \in ReqIds : CreateFindCase(r)
  \/ \E r \in ReqIds : CreateSave(r)
  \/ \E r \in ReqIds : CreateIndex(r)

SpecCreate == Init /\ [][NextCreate]_vars

\* server.js, who reads what: one message of the user and agent responses to
\* its case, while the user, a second customer and the admin list cases, open
\* threads and join and leave case rooms
Readers == {UserToken, OtherToken, AdminToken}
NextAccess ==
  \/ \E r \in ReqIds : InFlight = {} /\ ChatStart(r, MsgLate, UserToken)
  \/ \E r \in ReqIds : ChatEnsureCase(r)
  \/ \E r \in ReqIds : ChatTriage(r)
  \/ \E r \in ReqIds : ChatPush(r)
  \/ \E r \in ReqIds, c \in CaseIdInputs : ResponseStart(r, c, AgentMessage, AdminToken)
  \/ \E r \in ReqIds : ResponseSetLock(r)
  \/ \E r \in ReqIds, t \in Readers : ListUserCases(r, User, t)
  \/ \E r \in ReqIds, c \in CaseIdInputs, t \in Readers : GetThread(r, c, t)
  \/ \E c \in CaseIdInputs, t \in Readers : JoinCase(t, c)
  \/ \E c \in CaseIdInputs, t \in Readers : LeaveCase(t, c)

SpecAccess == Init /\ [][NextAccess]_vars

\* server.js, the chat log over the days: messages answered by the FAQ stage
\* while time passes
NextRetention ==
  \/ \E r \in ReqIds : ChatStart(r, MsgLate, UserToken)
  \/ \E r \in ReqIds : ChatEnsureCase(r)
  \/ \E r \in ReqIds : ChatTriage(r)
  \/ \E r \in ReqIds : ChatPush(r)
  \/ ChatTick

SpecRetention == Init /\ [][NextRetention]_vars

\* server.js, refund messages of every sentiment while the admin lowers the
\* priority of cases
NextRefund ==
  \/ \E r \in ReqIds, m \in RefundMessages : ChatStart(r, m, UserToken)
  \/ \E r \in ReqIds : ChatEnsureCase(r)
  \/ \E r \in ReqIds : ChatTriage(r)
  \/ \E r \in ReqIds : ChatRefundFind(r)
  \/ \E r \in ReqIds : ChatRefundSave(r)
  \/ \E r \in ReqIds : ChatRefundIndex(r)
  \/ \E r \in ReqIds : ChatPush(r)
  \/ \E r \in ReqIds, c \in CaseIdInputs :
        UpdateStart(r, c, [status |-> "none", priority |-> "low"], AdminToken)

SpecRefund == Init /\ [][NextRefund]_vars

\* server.js when nobody ever clears a lock: agent responses and explicit enables
\* set it, only time unsets it; time does pass
NextExpiry ==
  \/ \E r \in ReqIds : ChatStart(r, MsgLate, UserToken)
  \/ \E r \in ReqIds : ChatEnsureCase(r)
  \/ \E r \in ReqIds : ChatTriage(r)
  \/ \E r \in ReqIds : ChatPush(r)
  \/ \E r \in ReqIds, c \in CaseIdInputs : ResponseStart(r, c, AgentMessage, AdminToken)
  \/ \E r \in ReqIds : ResponseSetLock(r)
  \/ \E r \in ReqIds, c \in CaseIdInputs : ToggleAgentOnly(r, c, TRUE, AdminToken)
  \/ Tick

SpecExpiry == Init /\ [][NextExpiry]_vars /\ WF_vars(Tick)

(***************************************************************************)
(* Properties                                                              *)
(***************************************************************************)
Chats == { r \in ReqIds : reqs[r].kind = "chat" }
Done(r) == reqs[r].pc = "done"
Moves(r) == reqs'[r] # reqs[r]
Finishes(r) == reqs[r].pc # "done" /\ reqs'[r].pc = "done"
AutoPaths == {"refund", "faq", "case-memory", "llm"}

TurnsOf(r) ==
  { <<k, i>> \in Keys \X (1..MaxReq) : i <= Len(chatLog[k]) /\ chatLog[k][i].req = r }
TurnAt(ki) == chatLog[ki[1]][ki[2]]
EventsOf(r) == { e \in published : e.req = r }

\* C1 (as claimed): an automated reply is never recorded or published for a case
\* while the agent-only lock of that case is set, in every interleaving.
C1_NoAutoReplyWhileLocked ==
  [][\A r \in ReqIds :
       (At(r, "chat", "push") /\ Moves(r) /\ reqs[r].path \in AutoPaths)
         => ~isAgentOnly(agentOnly, reqs[r].caseId)]_vars

\* C1 (amended): a user message whose lock check finds the agent-only key of its
\* case set takes the lock path: no automated reply is recorded or published for
\* it; only a request that made its check before the lock was set may still
\* record its automated reply after it.
C1_LockedAtCheckNoAutoReply ==
  \A r \in Chats :
    reqs[r].lockAtCheck =>
      /\ reqs[r].path = "lock"
      /\ \A t \in TurnsOf(r) : TurnAt(t).reply = Null /\ TurnAt(t).source = "user"
      /\ \A e \in EventsOf(r) : e.event = "chat:user" /\ e.topic = AgentsRoom

C1_Witness ==
  \E r \in Chats :
    /\ Done(r) /\ reqs[r].lockAtCheck /\ reqs[r].res.body = "queued"
    /\ TurnsOf(r) # {}
    /\ \E a \in ReqIds : reqs[a].kind = "response" /\ reqs[a].caseId = reqs[r].caseId

\* the condition of each stage, for a request that has passed the lock check
FaqWouldHit(q) == checkFaq(q.msg, DomainOf(q.key), TRUE).hit
FirstStage(q) ==
  IF q.lockAtCheck THEN "lock"
  ELSE IF IsRefund(q.msg) THEN "refund"
  ELSE IF FaqWouldHit(q) THEN "faq"
  ELSE IF q.path = "case-memory" THEN "case-memory"
  ELSE "llm"
StagesUpTo(path) ==
  IF path = "lock" THEN <<"lock">>
  ELSE IF path = "refund" THEN <<"refund">>
  ELSE IF path = "faq" THEN <<"faq">>
  ELSE IF path = "case-memory" THEN <<"faq", "case-memory">>
  ELSE <<"faq", "case-memory", "llm">>

\* C2: every message the chat handler accepts is answered by the first stage, in
\* the order lock, refund, FAQ, case-memory, generative, whose condition holds; no
\* later stage runs; exactly one reply or one queued acknowledgement is returned.
C2_FirstMatchWins ==
  \A r \in Chats :
    (Done(r) /\ reqs[r].res.code = 200) =>
      /\ reqs[r].res.body \in {"reply", "queued"}
      /\ reqs[r].path = FirstStage(reqs[r])
      /\ reqs[r].stages = StagesUpTo(reqs[r].path)
      /\ Cardinality(TurnsOf(r)) = 1

\* C3: a resolved case that receives a new user message is open again once the
\* message is answered, whichever stage answers it.
C3_ResolvedReopens ==
  [][\A r \in ReqIds :
       (/\ At(r, "chat", "push") /\ Finishes(r)
        /\ reqs[r].path \in AutoPaths
        /\ reqs[r].seenStatus = "resolved"
        /\ ~ \E a \in ReqIds : a > r /\ reqs[a].kind \in {"update", "response"})
         => cases'[FindCase(cases, reqs[r].key)].status = "open"]_vars

\* C4: the status of a case moves only open -> in-progress, in-progress ->
\* resolved and resolved -> open, the last only on a new user message.
AllowedStatusStep(old, new, byChat) ==
  \/ old = new
  \/ old = "open" /\ new = "in-progress"
  \/ old = "in-progress" /\ new = "resolved"
  \/ old = "resolved" /\ new = "open" /\ byChat

C4_StatusLifecycle ==
  [][\A c \in 1..Len(cases) :
       AllowedStatusStep(cases[c].status, cases'[c].status,
                         \E r \in ReqIds : reqs'[r].kind = "chat" /\ Moves(r))]_vars

\* C5: an agent response appends the response and sets the status to in-progress,
\* unless the case is already resolved: then the status stays resolved.
C5_AgentResponseKeepsResolved ==
  [][\A r \in ReqIds :
       (reqs[r].kind = "idle" /\ reqs'[r].kind = "response"
        /\ reqs'[r].caseId \in 1..Len(cases))
         => LET c == reqs'[r].caseId
            IN /\ cases'[c].responses =
                    Append(cases[c].responses,
                           [adminId |-> Admin, message |-> AgentMessage])
               /\ cases'[c].status =
                    IF cases[c].status = "resolved" THEN "resolved"
                    ELSE "in-progress"]_vars

\* C6: in every reachable state there is at most one case per (user, order,
\* product index), also when requests for the same key run concurrently.
C6_OneCasePerKey ==
  \A i, j \in 1..Len(cases) :
    (cases[i].userId = cases[j].userId /\ KeyOf(cases[i]) = KeyOf(cases[j])) => i = j

\* two requests raced to create the case of one key: one inserted, one was refused
C6_Witness ==
  \E r, w \in ReqIds :
    /\ r # w /\ reqs[r].key = reqs[w].key /\ reqs[r].key # NoKey
    /\ Done(r) /\ reqs[r].res.code = 500
    /\ reqs[w].caseId # NoCase
    /\ Len(cases) = 1

\* C7: a persistence conflict on case upsert never produces an error: of two
\* concurrent requests that both try to create the case, both complete successfully.
C7_ConflictNeverErrors ==
  \A r \in ReqIds :
    (Done(r) /\ reqs[r].kind \in {"chat", "create"}) => reqs[r].res.code # 500

\* C8: a message with a refund keyword that the lock does not short-circuit takes
\* the refund path (reply tagged refund, FAQ matcher never consulted), even when
\* it also exceeds the FAQ threshold.
C8_RefundBeatsFaq ==
  \A r \in Chats :
    (Done(r) /\ reqs[r].res.code = 200 /\ IsRefund(reqs[r].msg) /\ ~reqs[r].lockAtCheck)
      => /\ reqs[r].path = "refund"
         /\ ~Has(reqs[r].stages, "faq")
         /\ \A e \in EventsOf(r) : e.event = "chat:reply" => e.source = "refund"

\* C9 (as claimed): a request answered by the FAQ or the case-memory stage leaves
\* the set of cases and every case as they were, first message included.
C9_FaqAndMemoryMutateNothing ==
  [][\A r \in ReqIds :
       (reqs'[r].kind = "chat" /\ Moves(r)
        /\ "refund" \notin {reqs'[r].stages[i] : i \in 1..Len(reqs'[r].stages)}
        /\ "llm" \notin {reqs'[r].stages[i] : i \in 1..Len(reqs'[r].stages)})
         => cases' = cases]_vars

\* C9 (amended): a request answered by the FAQ or the case-memory stage changes no
\* existing case; when no case exists yet for its (user, order, product), the
\* handler first creates one: open, priority low, the message as description, no
\* responses.  Stated on the steps of a request that has run neither the refund nor the
\* generative stage, and on what the request has run when it is answered.
C9_FaqAndMemoryOnlyCreate ==
  /\ [][\A r \in ReqIds :
          (reqs'[r].kind = "chat" /\ Moves(r)
           /\ ~Has(reqs'[r].stages, "refund") /\ ~Has(reqs'[r].stages, "llm"))
            => \/ cases' = cases
               \/ /\ reqs[r].pc = "ensureCase"
                  /\ FindCase(cases, reqs[r].key) = NoCase
                  /\ cases' = Append(cases,
                       [userId |-> User, orderId |-> reqs[r].key.orderId,
                        productIndex |-> reqs[r].key.productIndex,
                        description |-> reqs[r].msg,
                        domain |-> DomainOf(reqs[r].key), priority |-> "low",
                        status |-> "open", responses |-> <<>>])]_vars
  /\ [](\A r \in Chats :
          reqs[r].path \in {"faq", "case-memory"}
            => ~Has(reqs[r].stages, "refund") /\ ~Has(reqs[r].stages, "llm"))

\* the first message for a key was answered by the FAQ, after its case was created
C9_Witness ==
  \E r \in Chats :
    /\ Done(r) /\ reqs[r].path \in {"faq", "case-memory"}
    /\ reqs[r].seenStatus = "none"
    /\ reqs[r].caseId = Len(cases) /\ Len(cases) > 0

\* C10: every path of the chat handler that produces a reply stores exactly one
\* chat turn for the (user, order, product) and publishes the reply to the user's
\* topic and to the agents topic; the lock path publishes an inbound-message
\* notification, without a reply, to the agents topic.
C10_TurnAndFanout ==
  \A r \in Chats :
    LET q == reqs[r]
    IN /\ (Done(r) /\ q.path \in AutoPaths) =>
            /\ Cardinality(TurnsOf(r)) = 1
            /\ \A t \in TurnsOf(r) : t[1] = q.key /\ TurnAt(t).reply = q.reply
            /\ q.reply # Null
            /\ \E e \in EventsOf(r) :
                 e.topic = UserRoom /\ e.event = "chat:reply" /\ e.message = q.reply
            /\ \E e \in EventsOf(r) :
                 e.topic = AgentsRoom /\ e.event = "chat:reply" /\ e.message = q.reply
       /\ (Done(r) /\ q.path = "lock") =>
            /\ \E e \in EventsOf(r) :
                 e.topic = AgentsRoom /\ e.event = "chat:user" /\ e.message = q.msg
            /\ \A e \in EventsOf(r) : e.event # "chat:reply"
       /\ ~Done(r) => TurnsOf(r) = {} /\ EventsOf(r) = {}

C10_Witness ==
  /\ \E r \in Chats : Done(r) /\ reqs[r].path = "lock"
  /\ \E r \in Chats : Done(r) /\ reqs[r].path \in {"refund", "llm"}
  /\ \E r \in Chats : Done(r) /\ reqs[r].path \in {"faq", "case-memory"}

\* C11: no failure of an automated stage (embedding call, FAQ lookup, case-memory
\* search or indexing, generative call) keeps the chat turn from being stored and
\* the reply finally produced, the static fallback included, from being
\* published to the user's and the agents' topics.
C11_FailuresDoNotBlockReply ==
  \A r \in Chats :
    LET q == reqs[r]
    IN q.failed # {} =>
         /\ q.res.code # 500
         /\ ~Done(r) => ENABLED (\/ ChatStep(r) \/ ChatRefundIndex(r)
                                 \/ ChatLlmFind(r) \/ ChatLlmSave(r) \/ ChatLlmIndex(r))
         /\ Done(r) =>
              /\ q.res.code = 200 /\ q.reply # Null
              /\ Cardinality(TurnsOf(r)) = 1
              /\ \A t \in TurnsOf(r) : t[1] = q.key /\ TurnAt(t).reply = q.reply
              /\ \E e \in EventsOf(r) :
                   e.topic = UserRoom /\ e.event = "chat:reply" /\ e.message = q.reply
              /\ \E e \in EventsOf(r) :
                   e.topic = AgentsRoom /\ e.event = "chat:reply" /\ e.message = q.reply

\* one message met a failing FAQ lookup, a failing case-memory search, a failing
\* generative call and a failing indexing, and was answered
C11_Witness ==
  \E r \in Chats :
    /\ Done(r) /\ reqs[r].res.code = 200
    /\ reqs[r].failed = {"faq", "case-memory", "llm", "index"}
    /\ TurnsOf(r) # {}

\* C12: when the generative backend is unavailable (every model out of quota, or
\* a model failing with another error), the chat handler still answers 200 with
\* the static escalation reply tagged llm; it never answers with an error.
C12_GeminiDownStaticReply ==
  /\ callGemini(AllModels("429")).threw
  /\ callGemini([AllModels("text") EXCEPT ![1] = "400"]).threw
  /\ \A r \in Chats :
       LET q == reqs[r]
       IN "llm" \in q.failed =>
            /\ q.res.code # 500
            /\ q.reply = StaticEscalation
            /\ Done(r) =>
                 /\ q.res.code = 200 /\ q.res.body = "reply" /\ q.path = "llm"
                 /\ \A t \in TurnsOf(r) : TurnAt(t).reply = StaticEscalation
                                          /\ TurnAt(t).source = "llm"
                 /\ \E e \in EventsOf(r) :
                      /\ e.topic = UserRoom /\ e.event = "chat:reply"
                      /\ e.source = "llm" /\ e.message = StaticEscalation

C12_Witness ==
  \E r \in Chats :
    /\ Done(r) /\ "llm" \in reqs[r].failed /\ reqs[r].failed # {"llm"}
    /\ \E t \in TurnsOf(r) : TurnAt(t).reply = StaticEscalation

Resolving(r) == reqs[r].kind = "update" /\ reqs[r].updates.status = "resolved"
MemorySummary(mem, c) ==
  IF MemIndexOf(mem, c) = 0 THEN Null ELSE mem[MemIndexOf(mem, c)].summary

\* C13 (as claimed): when an admin update sets a case to resolved, on completion
\* the closing note is the last entry of the case's responses, the agent-only
\* lock of the case is not set, and the CaseMemory record of the case holds the
\* resolution summary built from the last 6 responses.
C13_ResolvedOnCompletion ==
  [][\A r \in ReqIds :
       (Resolving(r) /\ Finishes(r) /\ reqs'[r].res.code = 200)
         => LET c == reqs[r].caseId
            IN /\ cases'[c].responses[Len(cases'[c].responses)] = ClosingResponse
               /\ ~isAgentOnly(agentOnly', c)
               /\ MemorySummary(memory', c) =
                    Slice(SummaryText(cases'[c].responses), TEXT_BUDGET)]_vars

\* C13 (amended): an admin update that sets a case to resolved appends the
\* closing note to the stored responses, then clears the agent-only lock, then
\* writes to the CaseMemory record of the case the summary of the last 6
\* responses of its own copy of the case, closing note included.  On completion
\* the note is among the responses; it is the last one, and the summary is that
\* of the stored responses, when no agent response to the case started after the
\* update did and no other update of the case was made.
C13_ResolveSteps ==
  [][\A r \in ReqIds :
       LET c == reqs[r].caseId
       IN /\ (At(r, "update", "saveNote") /\ Moves(r))
               => cases'[c].responses = Append(cases[c].responses, ClosingResponse)
          /\ (At(r, "update", "clearLock") /\ Moves(r))
               => ~isAgentOnly(agentOnly', c)
          /\ (At(r, "update", "indexSummary") /\ Moves(r))
               => /\ reqs'[r].res.code = 200
                  /\ MemorySummary(memory', c) =
                       Slice(SummaryText(reqs[r].doc.responses), TEXT_BUDGET)
                  /\ reqs[r].doc.responses[Len(reqs[r].doc.responses)] = ClosingResponse
                  /\ \E i \in 1..Len(cases'[c].responses) :
                       cases'[c].responses[i] = ClosingResponse
                  /\ (~ \E a \in ReqIds \ {r} :
                          /\ reqs[a].caseId = c
                          /\ \/ reqs[a].kind = "update"
                             \/ reqs[a].kind = "response" /\ a > r)
                       => /\ cases'[c].responses = reqs[r].doc.responses
                          /\ MemorySummary(memory', c) =
                               Slice(SummaryText(cases'[c].responses), TEXT_BUDGET)]_vars

\* a case that an agent had answered (lock set) was resolved: note stored, lock
\* cleared, summary of agent message and note in the case memory
C13_Witness ==
  \E r, a \in ReqIds :
    /\ Resolving(r) /\ Done(r) /\ reqs[r].res.code = 200
    /\ reqs[a].kind = "response" /\ Done(a) /\ a < r /\ reqs[a].caseId = reqs[r].caseId
    /\ ~isAgentOnly(agentOnly, reqs[r].caseId)
    /\ Len(cases[reqs[r].caseId].responses) >= 2
    /\ Has(MemorySummary(memory, reqs[r].caseId), "Resolution Summary:")

\* C19: a request rejected for a missing required field (the chat message; the
\* order id, product index or description of a case; the message of an agent
\* response) leaves cases, CaseMemory records, the chat log and the agent-only
\* lock unchanged and publishes no event; and no request lacking such a field
\* gets past its validation.
C19_ValidationNoSideEffects ==
  /\ [][\A r \in ReqIds :
          (Moves(r) /\ reqs'[r].res.code = 400
           /\ reqs'[r].res.body \in {"message-required", "fields-required"})
            => UNCHANGED <<cases, memory, chatLog, agentOnly, published>>]_vars
  /\ [](\A r \in ReqIds :
          /\ (reqs[r].kind \in {"chat", "response", "create"} /\ reqs[r].msg = Null)
               => Done(r) /\ reqs[r].res.code \in {400, 401, 403}
          /\ (reqs[r].kind = "create" /\ reqs[r].key \notin Keys)
               => Done(r) /\ reqs[r].res.code \in {400, 401})

\* with a case, its lock and events in place, an agent response without message
\* and a case creation without fields were rejected
C19_Witness ==
  \E a, b \in ReqIds :
    /\ reqs[a].kind = "response" /\ reqs[a].res.body = "message-required"
    /\ reqs[b].kind = "create" /\ reqs[b].res.body = "fields-required"
    /\ Len(cases) > 0 /\ published # {} /\ chatLog[Key0] # <<>>

\* C20: a request without a valid token, and a request by a non-admin to an
\* admin-only operation (agent response, case update, agent-only toggle), is
\* rejected before anything runs: cases, lock, chat log, case memory and the
\* selected product stay as they are and no event is published; and every
\* request that got past the checks carries a token that verifies, the admin's
\* for an admin-only operation.
C20_UnauthorizedNoSideEffects ==
  /\ [][\A r \in ReqIds :
          (Moves(r) /\ reqs'[r].res.code \in {401, 403})
            => UNCHANGED <<cases, memory, chatLog, agentOnly, published, selected>>]_vars
  /\ [](\A r \in ReqIds :
          reqs[r].token # "-" =>
            /\ reqs[r].token \in {UserToken, AdminToken}
            /\ reqs[r].kind \in {"response", "update"} => reqs[r].token = AdminToken)

\* with a case and its lock in place, one request came without a valid token and
\* the user called an admin-only operation
C20_Witness ==
  \E a, b \in ReqIds :
    /\ reqs[a].res.code = 401
    /\ reqs[b].res.code = 403 /\ reqs[b].kind \in {"response", "update", "toggle"}
    /\ Len(cases) > 0 /\ DOMAIN agentOnly # {}

LockSetStep(c) ==
  /\ isAgentOnly(agentOnly', c)
  /\ ~isAgentOnly(agentOnly, c) \/ agentOnly'[c] > agentOnly[c]
LockUnsetStep(c) == isAgentOnly(agentOnly, c) /\ ~isAgentOnly(agentOnly', c)

C15_LockExpires ==
  /\ \A c \in 1..Cardinality(Keys) :
       (<>[][~LockSetStep(c)]_vars) => <>[](~isAgentOnly(agentOnly, c))
  /\ [](\A c \in DOMAIN agentOnly : agentOnly[c] \in 1..AGENT_ONLY_TTL)
  /\ [][\A c \in DOMAIN agentOnly :
          \/ LockSetStep(c)
          \/ ~isAgentOnly(agentOnly', c)
          \/ agentOnly'[c] <= agentOnly[c]]_vars
  /\ [](\A r \in Chats :
          (reqs[r].stages # <<>> /\ ~reqs[r].lockAtCheck) => reqs[r].stages[1] # "lock")

\* the lock set by an agent response expired, nobody cleared it, and a later
\* message of the user was answered by the FAQ stage
C15_Witness ==
  \E a, r \in ReqIds :
    /\ reqs[a].kind = "response" /\ Done(a) /\ reqs[a].res.code = 200
    /\ reqs[r].kind = "chat" /\ Done(r) /\ a < r /\ reqs[r].caseId = reqs[a].caseId
    /\ reqs[r].path = "faq" /\ ~reqs[r].lockAtCheck
    /\ ~isAgentOnly(agentOnly, reqs[a].caseId)

\* C16: a user message whose lock check finds the agent-only lock active stores
\* exactly one turn, with a null reply and source "user", publishes one
\* inbound-message notification to the agents topic and nothing to the user's
\* topic, is answered with the queued / human-agent acknowledgement, and its
\* steps from the lock check on leave every case (status, priority, description,
\* responses), the lock and the case memory as they were.
C16_LockedMessageEffects ==
  /\ [](\A r \in Chats :
          LET q == reqs[r]
          IN /\ (Done(r) /\ q.path = "lock") =>
                  /\ q.lockAtCheck
                  /\ Cardinality(TurnsOf(r)) = 1
                  /\ \A t \in TurnsOf(r) :
                       /\ t[1] = q.key
                       /\ TurnAt(t) = Turn(r, q.msg, Null, "user", q.caseId)
                  /\ EventsOf(r) = {Emit(AgentsRoom, "chat:user", r, "-", q.msg, "-")}
                  /\ q.res = [code |-> 200, body |-> "queued"]
             /\ (Done(r) /\ q.lockAtCheck) => q.path = "lock")
  /\ [][\A r \in Chats :
          (/\ Moves(r)
           /\ reqs[r].pc \in {"triage", "push"}
           /\ reqs'[r].path = "lock") =>
            /\ cases' = cases /\ agentOnly' = agentOnly /\ memory' = memory
            /\ reqs[r].pc = "triage" => published' = published /\ chatLog' = chatLog]_vars

\* a message sent after an agent's response was queued for the agent while the
\* lock was still set
C16_Witness ==
  \E r \in Chats :
    /\ Done(r) /\ reqs[r].path = "lock" /\ reqs[r].res.body = "queued"
    /\ isAgentOnly(agentOnly, reqs[r].caseId)
    /\ cases[reqs[r].caseId].responses # <<>>
    /\ \E t \in TurnsOf(r) : TurnAt(t).reply = Null

\* C17: every case, at the step that creates it (POST /api/case or the first chat
\* message for its key), has status open and has priority high exactly when its
\* description contains payment, billing, refund, charge or transaction, and
\* priority low otherwise.
C17_CreationPriority ==
  [][Len(cases') > Len(cases) =>
       LET c == cases'[Len(cases')]
       IN /\ c.status = "open"
          /\ c.priority = determinePriority(c.description)]_vars

RefundCaseForced(c, q) ==
  /\ KeyOf(c) = q.key
  /\ c.priority = "high"
  /\ c.description = <<"[Refund Request]">> \o q.msg
RefundAnswer(r, q, events) ==
  /\ q.reply = RefundReply
  /\ q.res = [code |-> 200, body |-> "reply"]
  /\ \E e \in events :
       /\ e.req = r /\ e.topic = UserRoom /\ e.event = "chat:reply"
       /\ e.source = "refund" /\ e.message = RefundReply
  /\ q.sla = [level |-> "express", targetMinutes |-> SLA_FAST_MIN]

\* C18 (as claimed): when a message has taken the refund path, on completion the
\* case for its (user, order, product) exists with priority high and the
\* refund-tagged description, the reply is the fixed escalation text tagged
\* refund, and the SLA returned is express for every sentiment of the message.
C18_RefundOnCompletion ==
  [][\A r \in Chats :
       (Finishes(r) /\ reqs'[r].path = "refund") =>
         /\ reqs'[r].caseId \in 1..Len(cases')
         /\ RefundCaseForced(cases'[reqs'[r].caseId], reqs'[r])
         /\ RefundAnswer(r, reqs'[r], published')]_vars

\* C18 (amended): the save of the refund path, made on a case that nobody wrote
\* since the path read it, leaves the case of the (user, order, product) with
\* priority high, status open and the refund-tagged description; on completion
\* the case exists, the reply is the fixed escalation text published with the
\* tag refund, and the SLA returned is express whatever the sentiment.
C18_RefundSteps ==
  /\ [](\A r \in Chats :
          reqs[r].pc \in {"refundSave", "refundIndex"} =>
            /\ reqs[r].caseId \in 1..Len(cases)
            /\ KeyOf(cases[reqs[r].caseId]) = reqs[r].key)
  /\ [][\A r \in Chats :
          /\ (/\ At(r, "chat", "refundSave") /\ Moves(r)
              /\ DocOf(cases[reqs[r].caseId]) = reqs[r].doc) =>
                /\ RefundCaseForced(cases'[reqs[r].caseId], reqs[r])
                /\ cases'[reqs[r].caseId].status = "open"
          /\ (Finishes(r) /\ reqs'[r].path = "refund") =>
                /\ reqs'[r].caseId \in 1..Len(cases')
                /\ KeyOf(cases'[reqs'[r].caseId]) = reqs'[r].key
                /\ RefundAnswer(r, reqs'[r], published')]_vars

\* refund messages of an angry, a calm and a neutral user were all answered on
\* the refund path
C18_Witness ==
  \A label \in {"angry", "cool", "neutral"} :
    \E r \in Chats :
      /\ Done(r) /\ reqs[r].path = "refund" /\ reqs[r].res.code = 200
      /\ analyzeSentiment(reqs[r].msg).label = label
      /\ cases[reqs[r].caseId].priority = "high"

MemoryOf(mem, c) == { i \in 1..Len(mem) : mem[i].caseId = c }

C22_BestEffortStages ==
  /\ [](\A m \in Messages, key \in Keys :
          /\ checkFaq(m, DomainOf(key), FALSE) = NoHit
          /\ searchSimilarCases(memory, m, DomainOf(key), SIM_TOP_K, FALSE) = <<>>)
  /\ [](\A c \in 1..Len(cases) :
          /\ indexCase(memory, c, DocOf(cases[c]), FALSE) = memory
          /\ indexResolutionSummary(memory, c, DocOf(cases[c]),
                                    SummaryText(cases[c].responses), FALSE) = memory)
  /\ [][\A r \in ReqIds :
          Moves(r) =>
            /\ (At(r, "chat", "triage") /\ "faq" \in reqs'[r].failed) =>
                  reqs'[r].pc = "caseMemory"
            /\ (At(r, "chat", "caseMemory") /\ "case-memory" \in reqs'[r].failed) =>
                  /\ reqs'[r].pc = "llmFind"
                  /\ reqs'[r].stages = <<"faq", "case-memory", "llm">>
            /\ At(r, "chat", "llmIndex") =>
                  /\ reqs'[r].pc = "push"
                  /\ "index" \in reqs'[r].failed => memory' = memory
            /\ At(r, "create", "index") =>
                  /\ reqs'[r].res = [code |-> 200, body |-> "case-processed"]
                  /\ memory' = memory \/ memory' = indexCase(memory, reqs[r].caseId,
                                                             reqs[r].doc, TRUE)
            /\ At(r, "update", "indexSummary") =>
                  /\ reqs'[r].res = [code |-> 200, body |-> "case-updated"]
                  /\ memory' = memory \/ Cardinality(MemoryOf(memory', reqs[r].caseId)) = 1]_vars

\* every call failed for a message and for the resolution of its case: both
\* were answered, and the case memory is empty
C22_Witness ==
  \E r, u \in ReqIds :
    /\ reqs[r].kind = "chat" /\ Done(r) /\ reqs[r].res.code = 200
    /\ {"faq", "case-memory", "index"} \subseteq reqs[r].failed
    /\ Resolving(u) /\ Done(u) /\ reqs[u].res.code = 200
    /\ reqs[u].caseId = reqs[r].caseId
    /\ memory = <<>>

FaqScore(m, i) == cosineSimilarity(getEmbedding(m), getEmbedding(Faqs[i].question))
FaqCandidates(d) == { i \in 1..Len(Faqs) : d = NoDomain \/ Faqs[i].domain = d }

\* C23: checkFaq returns a hit exactly when some FAQ entry of the requested
\* domain (any entry when no domain is given) scores at least the threshold; the
\* answer is that of an entry no other candidate outscores, and with a domain
\* given it is never the answer of an entry of another domain.
C23_FaqBestOfDomain ==
  call.fn = "checkFaq" =>
    LET m == call.args[1]
        d == call.args[2]
        best == { i \in FaqCandidates(d) :
                    \A j \in FaqCandidates(d) : ~ScoreGreater(FaqScore(m, j), FaqScore(m, i)) }
    IN /\ call.result.hit <=>
            \E i \in FaqCandidates(d) : ScoreAtLeast(FaqScore(m, i), FAQ_SIM_THRESHOLD)
       /\ call.result.hit => \E i \in best : call.result.answer = Faqs[i].answer
       /\ call.result.hit =>
            \A i \in 1..Len(Faqs) :
              Faqs[i].answer = call.result.answer => i \in FaqCandidates(d)
       /\ ~call.result.hit => call.result = NoHit

\* the question of a Travel entry asked within E-commerce: no hit, although the
\* same question without a domain is answered
C23_Witness ==
  /\ call.fn = "checkFaq"
  /\ call.args = <<Faqs[3].question, "E-commerce">>
  /\ ~call.result.hit
  /\ checkFaq(Faqs[3].question, NoDomain, TRUE).answer = Faqs[3].answer

\* C24: computeSLA applies its rules in order for every priority and sentiment:
\* angry gives express; otherwise high priority gives express; otherwise cool
\* gives batched; otherwise standard; the targets are 15, 180 and 60 minutes; a
\* missing priority counts as low.
C24_SlaPrecedence ==
  call.fn = "computeSLA" =>
    LET priority == call.args[1]
        sentiment == call.args[2]
        sla == call.result
    IN /\ sentiment = "angry" => sla = [level |-> "express", targetMinutes |-> 15]
       /\ (sentiment # "angry" /\ priority = "high") =>
            sla = [level |-> "express", targetMinutes |-> 15]
       /\ (sentiment = "cool" /\ priority # "high") =>
            sla = [level |-> "batched", targetMinutes |-> 180]
       /\ (sentiment \notin {"angry", "cool"} /\ priority # "high") =>
            sla = [level |-> "standard", targetMinutes |-> 60]
       /\ priority = Undefined => sla = computeSLA("low", sentiment)

\* a calm user with a high-priority case: express, the priority rule comes first
C24_Witness ==
  /\ call.fn = "computeSLA"
  /\ call.args = <<"high", "cool">>
  /\ call.result.level = "express"

\* C25: analyzeSentiment labels "please, no hurry" as cool, "this is a scam,
\* fraud, terrible!!!" as angry, and "ok" as neutral.
C25_SentimentExamples ==
  call.fn = "analyzeSentiment" =>
    /\ call.args = TextPleaseNoHurry => call.result.label = "cool"
    /\ call.args = TextScam => call.result.label = "angry"
    /\ call.args = TextOk => call.result.label = "neutral"

Prefix(a, n) == SubSeq(a, 1, n)
Norm2(a) == SumTo([i \in 1..Len(a) |-> a[i] * a[i]], Len(a))
Dot(a, b) == SumTo([i \in 1..Len(a) |-> a[i] * b[i]], Len(a))

\* C26: both cosine functions return 0 when either vector has zero norm over the
\* compared prefix, 0 for orthogonal vectors and 1 for identical nonzero vectors;
\* with vectors of different lengths they read the shared prefix only; and they
\* return the same value for the same pair.
C26_CosineProperties ==
  call.fn = "cosine" =>
    LET a == call.args[1]
        b == call.args[2]
        n == Min(Len(a), Len(b))
        pa == Prefix(a, n)
        pb == Prefix(b, n)
    IN /\ call.result.faq = call.result.mem
       /\ (Norm2(pa) = 0 \/ Norm2(pb) = 0) => CosineDouble(call.result.faq) = "0"
       /\ Dot(pa, pb) = 0 => CosineDouble(call.result.faq) = "0"
       /\ (a = b /\ Norm2(a) # 0) =>
            /\ CosineDouble(call.result.faq) = "1"
            /\ CosineDouble(call.result.mem) = "1"
       /\ call.result.faq = cosineSimilarity(pa, pb)
       /\ call.result.mem = cosine(pa, pb)

\* C27: every turn stored in the chat log carries a source tag among faq,
\* case-memory, llm, refund, agent and user, equal to the routing tag published
\* with its reply, and its reply is null only for a turn queued to a human under
\* the agent-only lock.
C27_TurnSourceTag ==
  \A key \in Keys : \A i \in 1..Len(chatLog[key]) :
    LET t == chatLog[key][i]
    IN /\ t.source \in {"faq", "case-memory", "llm", "refund", "agent", "user"}
       /\ t.reply # Null =>
            \E e \in published :
              /\ e.req = t.req /\ e.event = "chat:reply"
              /\ e.message = t.reply /\ e.source = t.source
       /\ t.reply = Null =>
            /\ reqs[t.req].path = "lock" /\ reqs[t.req].lockAtCheck
            /\ t.source = "user"

\* C28: the case returned by the case-memory stage as the match is always a case
\* that was resolved before; a case that was never resolved, the user's own case
\* of the previous message included, is never returned.
C28_MemoryHitFromResolved ==
  \A r \in Chats :
    reqs[r].path = "case-memory" =>
      \E u \in ReqIds : Resolving(u) /\ reqs[u].caseId = reqs[r].turnCase

\* C29: callGemini calls the models in list order, each at most once; it moves
\* to the next model only after a quota error or an empty text, stops with an
\* error at the first other failure without calling a later model, returns the
\* first non-empty text, and raises after the last model: at most 5 calls.
C29_GeminiFallbackOrder ==
  call.fn = "callGemini" =>
    LET o == call.args
        g == call.result
        k == Len(g.calls)
    IN /\ k \in 1..5
       /\ g.calls = SubSeq(GEMINI_MODELS, 1, k)
       /\ \A i \in 1..(k - 1) : o[i] \in {"429", "empty"}
       /\ o[k] = "text" => ~g.threw /\ g.text = GeminiText /\ g.error = "none"
       /\ o[k] \in {"400", "401", "error"} =>
            g.threw /\ g.error \in {"invalid-request", "authentication-failed", "rethrown"}
       /\ o[k] \in {"429", "empty"} =>
            k = Len(GEMINI_MODELS) /\ g.threw /\ g.error = "exhausted"
       /\ ~g.threw => o[k] = "text"

\* two models out of quota or silent, the third rejects the request: three
\* calls, an error, and the two models that would have answered are not called
C29_Witness ==
  /\ call.fn = "callGemini"
  /\ call.args = <<"429", "empty", "400", "text", "text">>
  /\ call.result.threw
  /\ Len(call.result.calls) = 3

\* C30: once no request is in flight, the status carried by the last
\* status-changed event published on the owning user's topic for a case equals
\* the persisted status of the case, whatever the interleaving of agent
\* responses, admin updates and chat messages was.
C30_ShownStatusMatches ==
  InFlight = {} => \A c \in DOMAIN shown : shown[c] = cases[c].status

\* what one occurrence of each matched term, phrase, mark and emoticon adds, in
\* thousandths
OnceEach(text) ==
  LET n == SentimentCounts(text)
  IN -1000 * n[1] + 600 * n[2] - 600 * n[3] + 300 * n[4] - 300 * n[5]

Twice(text) == IF text = Null THEN Null ELSE text \o text

\* C31: for every text analyzeSentiment returns a score within [-1, 1] and a
\* label consistent with that score: angry exactly when the score is at most
\* -0.8, cool exactly when it is at least 0.6, neutral otherwise; each anger
\* term, calm phrase, exclamation pattern and emoticon contributes once however
\* often it occurs.
C31_SentimentScoreAndLabel ==
  call.fn = "analyzeSentiment" =>
    LET r == call.result
    IN /\ r.score >= -1000 /\ r.score <= 1000
       /\ r.label \in {"angry", "cool", "neutral"}
       /\ r.label = "angry" <=> r.score <= -800
       /\ r.label = "cool" <=> r.score >= 600
       /\ r.label = "neutral" <=> (r.score > -800 /\ r.score < 600)
       /\ r.score - Max(-1000, Min(1000, OnceEach(call.args))) \in {-1, 0, 1}
       /\ analyzeSentiment(Twice(call.args)) = r

C31_Witness ==
  /\ call.fn = "analyzeSentiment"
  /\ call.args = <<"mad", "mad", "mad">>
  /\ call.result = [label |-> "angry", score |-> -1000]

PositionOf(mem, caseId) == CHOOSE i \in 1..Len(mem) : mem[i].caseId = caseId

\* C32: searchSimilarCases returns at most K records, all of the requested
\* domain when a domain is given, in descending order of similarity with ties in
\* the order of the collection, and no scanned record outside the result scores
\* higher than a record inside it.
C32_SearchTopK ==
  call.fn = "searchSimilarCases" =>
    LET mem == call.args[1]
        q == getEmbedding(Slice(call.args[2], TEXT_BUDGET))
        domain == call.args[3]
        topK == call.args[4]
        res == call.result
        scanned == Slice(Find(mem, domain), MEMORY_SCAN_LIMIT)
    IN /\ Len(res) <= topK
       /\ \A i \in 1..Len(res) :
            /\ \E j \in 1..Len(scanned) :
                 /\ scanned[j].caseId = res[i].caseId
                 /\ scanned[j].summary = res[i].summary
                 /\ scanned[j].domain = res[i].domain
                 /\ res[i].score = cosine(q, getEmbedding(scanned[j].summary))
            /\ domain # NoDomain => res[i].domain = domain
       /\ \A i, j \in 1..Len(res) :
            i < j =>
              /\ ~ScoreGreater(res[j].score, res[i].score)
              /\ ~ScoreGreater(res[i].score, res[j].score) =>
                   PositionOf(mem, res[i].caseId) < PositionOf(mem, res[j].caseId)
       /\ \A j \in 1..Len(scanned) :
            (\A i \in 1..Len(res) : res[i].caseId # scanned[j].caseId) =>
              \A i \in 1..Len(res) :
                ~ScoreGreater(cosine(q, getEmbedding(scanned[j].summary)),
                              res[i].score)

\* three records, the best one of the other domain and the next two tied: the
\* search of the domain for one record returns the earlier of the tied pair
C32_Witness ==
  /\ call.fn = "searchSimilarCases"
  /\ call.args[1] = Corpus(<<[summary |-> <<"delivery", "late">>, domain |-> "Travel"],
                             [summary |-> <<"late">>, domain |-> "E-commerce"],
                             [summary |-> <<"late">>, domain |-> "E-commerce"]>>)
  /\ call.args[2] = MsgLate
  /\ call.args[3] = "E-commerce"
  /\ call.args[4] = 1
  /\ Len(call.result) = 1
  /\ call.result[1].caseId = 2

\* the collection longer than the scan limit: the record past the limit matches
\* the message exactly and is not returned
C32_WitnessScanLimit ==
  /\ call.fn = "searchSimilarCases"
  /\ call.args[1] = LongCorpus
  /\ call.args[2] = MsgLate
  /\ Len(call.result) = SIM_TOP_K
  /\ \A i \in 1..SIM_TOP_K : call.result[i].caseId = i

Unselects ==
  \/ \E r \in ReqIds : ClearSelected(r, UserToken)
  \/ \E r \in ReqIds : Login(r, TRUE)
  \/ \E r \in ReqIds : Logout(r, UserToken)
  \/ SelectedExpires

\* C33: a chat message is triaged against the (order, product) most recently
\* selected by the user: the selection is the key of the last select-product
\* call, is none after a clear, an expiry, a login or a logout, and is changed by
\* nothing else; a message takes the selection it finds, its case and its turn
\* are those of that key, and with no selection it is answered 400 and creates
\* no case, records no turn and publishes no event.
C33_TriagedAgainstSelection ==
  /\ [][\A key \in Keys :
          (\E r \in ReqIds : SelectProduct(r, key, UserToken)) => selected' = key]_vars
  /\ [][Unselects => selected' = NoKey]_vars
  /\ [][selected' # selected =>
          \/ Unselects
          \/ \E r \in ReqIds, key \in Keys : SelectProduct(r, key, UserToken)]_vars
  /\ [][\A r \in ReqIds :
          (reqs[r].kind = "idle" /\ reqs'[r].kind = "chat") =>
            /\ reqs'[r].key = selected
            /\ selected = NoKey =>
                 /\ reqs'[r].pc = "done" /\ reqs'[r].res.code = 400
                 /\ UNCHANGED <<cases, memory, chatLog, agentOnly, published>>]_vars
  /\ [][\A r \in Chats : reqs'[r].key = reqs[r].key]_vars
  /\ [](\A r \in Chats :
          /\ reqs[r].key = NoKey =>
               /\ Done(r) /\ reqs[r].caseId = NoCase
               /\ TurnsOf(r) = {} /\ EventsOf(r) = {}
          /\ reqs[r].caseId # NoCase => KeyOf(cases[reqs[r].caseId]) = reqs[r].key
          /\ \A t \in TurnsOf(r) : t[1] = reqs[r].key)

\* the user selects the second product, sends a message that is answered under
\* it, logs in again and sends a message that is refused
C33_Witness ==
  \E a, b, c \in ReqIds :
    /\ reqs[a].kind = "chat" /\ Done(a) /\ reqs[a].res.code = 200
    /\ reqs[a].key = [orderId |-> "o1", productIndex |-> 1]
    /\ TurnsOf(a) # {}
    /\ reqs[b].kind = "login" /\ reqs[b].res.code = 200
    /\ reqs[c].kind = "chat" /\ reqs[c].res.body = "select-product-first"
    /\ TurnsOf(c) = {} /\ EventsOf(c) = {}

\* C34 (as claimed): a turn recorded at t is no longer in the chat log of its key
\* after t + 86400 s, whatever later messages arrive on the same key.
C34_BoundedRetention ==
  \A k \in Keys :
    /\ Len(retention[k].ages) = Len(chatLog[k])
    /\ \A i \in 1..Len(chatLog[k]) : retention[k].ages[i] <= CHAT_TTL

\* C35 (as claimed): an admin update that does not change the status of the case
\* (a new priority for a case that is already resolved) appends nothing to the
\* responses of the case, publishes no case:message event and leaves the
\* agent-only lock as it is.
C35_NoNoteWithoutResolution ==
  [][\A r \in ReqIds :
       (Moves(r) /\ reqs'[r].kind = "update" /\ reqs'[r].updates.status = "none") =>
         /\ \A c \in 1..Len(cases) : cases'[c].responses = cases[c].responses
         /\ agentOnly' = agentOnly
         /\ \A e \in published' \ published : e.event # "case:message"]_vars

RefundForcedHigh(c) ==
  /\ c.priority = "high"
  /\ c.description # <<>> /\ Head(c.description) = "[Refund Request]"

\* C36 (as claimed): a case whose priority the refund path has forced to high
\* keeps priority high through every later chat message of the user; only an
\* admin update lowers it.
C36_RefundPriorityKept ==
  [][\A c \in 1..Len(cases) :
       RefundForcedHigh(cases[c]) =>
         /\ (\E r \in Chats : Moves(r)) => cases'[c].priority = "high"
         /\ cases'[c].priority # "high" =>
              \E u \in ReqIds : Moves(u) /\ reqs'[u].kind \in {"update", "create"}]_vars

HoldsResolutionSummary(mem, c) ==
  /\ MemorySummary(mem, c) # Null
  /\ Head(MemorySummary(mem, c)) = "Resolution Summary:"

\* C37 (as claimed): once a resolution summary has been indexed for a case, the
\* CaseMemory record of the case keeps a resolution summary: later chat messages
\* do not replace it with a plain message description.
C37_ResolutionSummaryKept ==
  [][\A c \in 1..Len(cases) :
       (HoldsResolutionSummary(memory, c) /\ \E r \in Chats : Moves(r))
         => HoldsResolutionSummary(memory', c)]_vars

\* C38 (as claimed): an agent-response request that ends in an error has
\* appended no response, changed no status and published no event; a failure to
\* set the agent-only lock never leaves the agent's message delivered while
\* automated replies are still enabled.
C38_ErrorMeansNoEffect ==
  \A r \in ReqIds :
    (reqs[r].kind = "response" /\ Done(r) /\ reqs[r].res.code >= 400) =>
      /\ EventsOf(r) = {}
      /\ reqs[r].caseId \in 1..Len(cases) =>
           \A i \in 1..Len(cases[reqs[r].caseId].responses) :
             cases[reqs[r].caseId].responses[i].message # reqs[r].msg

\* C39 (as claimed): a case created through explicit case creation without an
\* explicit domain takes the domain of the selected order's product rather than
\* a fixed default domain.
C39_CreateTakesProductDomain ==
  \A r \in ReqIds :
    (reqs[r].kind = "create" /\ Done(r) /\ reqs[r].res.code = 200) =>
      cases[reqs[r].caseId].domain = DomainOf(reqs[r].key)

MayRead(userId, c) == userId = Admin \/ userId = cases[c].userId

\* C40 (as claimed): case data and case events of a user's case reach only that
\* user and admins: no listing and no thread hands a case to an authenticated
\* caller who is neither its owner nor an admin, and no event of a case room is
\* delivered to the socket of such a caller.
C40_CaseDataConfined ==
  /\ [](\A r \in ReqIds :
          reqs[r].kind \in {"list", "thread"} =>
            \A c \in reqs[r].listed : MayRead(authMiddleware(reqs[r].token).userId, c))
  /\ [][\A e \in published' \ published : \A m \in rooms :
          e.topic = CaseRoom(m[2]) => MayRead(m[1], m[2])]_vars

====
